---------------------------- MODULE Spec2Model ----------------------------
(***************************************************************************)
(* A model of the chunked gated-linear-attention engine of                 *)
(* flash-linear-attention:                                                 *)
(*                                                                         *)
(*   fla/ops/gla/fused_chunk.py       fused_chunk_gla, FusedChunkGLA-      *)
(*                                    Function.forward and its kernels     *)
(*   fla/ops/generalized_delta_rule/dplr/chunk_h_bwd.py                    *)
(*                                    chunk_dplr_bwd_dhu and its kernel    *)
(*                                                                         *)
(* Arithmetic.  The kernels compute with reals (floats); the model         *)
(* computes exactly, on dyadic rationals m / 2^e written <<m, e>>.  A gate *)
(* value n of the model stands for the log-decay n * ln 2, so that         *)
(* exp(gate) is exactly 2^n; gates of the model are integers <= 0.         *)
(*                                                                         *)
(* Tensors.  The model follows one batch element (B = 1) and one value     *)
(* column (V = 1, BV = 1); key vectors have KDim channels.  A tensor the   *)
(* caller passes is given by its non-zero rows.                            *)
(***************************************************************************)
EXTENDS Integers, Sequences, FiniteSets, TLC

(***************************************************************************)
(* Bounds of the model.                                                    *)
(***************************************************************************)
\* key channels of the fused-chunk GLA tensors
KDim == 2
\* chunks per scanned sequence handed to FusedChunkGLAFunction.apply
MaxNT == 2
\* rows of an input that carry data (all other rows are zero)
MaxRows == 2
\* sizes of dimensions 1 and 2 of the tensors handed to fused_chunk_gla
MaxDim == 2
\* sequences of a call of chunk_dplr_bwd_dhu
MaxSeqs == 2
\* whole chunks of 16 timesteps before the last timestep of a sequence of
\* chunk_dplr_bwd_dhu
MaxWhole == 2
\* the key-channel width K of a call of chunk_dplr_bwd_dhu
MaxKey == 258

(***************************************************************************)
(* Exact arithmetic on dyadic rationals.                                   *)
(***************************************************************************)
RECURSIVE Pow2(_)
Pow2(n) == IF n <= 0 THEN 1 ELSE 2 * Pow2(n - 1)

RECURSIVE DNorm(_, _)
DNorm(m, e) ==
    IF m = 0 THEN <<0, 0>>
    ELSE IF e > 0 /\ m % 2 = 0 THEN DNorm(m \div 2, e - 1)
    ELSE <<m, e>>

DInt(n) == <<n, 0>>
DZero == <<0, 0>>

DAdd(a, b) ==
    IF a[2] = b[2] THEN DNorm(a[1] + b[1], a[2])
    ELSE IF a[2] > b[2] THEN DNorm(a[1] + b[1] * Pow2(a[2] - b[2]), a[2])
    ELSE DNorm(a[1] * Pow2(b[2] - a[2]) + b[1], b[2])

DMul(a, b) ==
    IF a[1] = 0 \/ b[1] = 0 THEN DZero ELSE DNorm(a[1] * b[1], a[2] + b[2])

\* exp of the log-decay n * ln 2
exp(n) == IF n >= 0 THEN <<Pow2(n), 0>> ELSE <<1, 0 - n>>

\* safe_exp: exp clamped to zero below a large negative threshold; the
\* cumulative decays of the model stay far above the threshold
safe_exp(n) == exp(n)

Chan == 1..KDim

RECURSIVE DSumSeq(_)
DSumSeq(s) == IF s = <<>> THEN DZero ELSE DAdd(Head(s), DSumSeq(Tail(s)))

\* sum of f[i] for i in lo..hi
RECURSIVE DSumRange(_, _, _)
DSumRange(f, lo, hi) == IF lo > hi THEN DZero ELSE DAdd(f[lo], DSumRange(f, lo + 1, hi))

\* sum of f[x] over the finite set of integers S
RECURSIVE DSumSet(_, _)
DSumSet(S, f) ==
    IF S = {} THEN DZero
    ELSE LET x == CHOOSE y \in S : \A z \in S : y <= z
         IN  DAdd(f[x], DSumSet(S \ {x}, f))

RECURSIVE ISumSet(_, _)
ISumSet(S, f) ==
    IF S = {} THEN 0
    ELSE LET x == CHOOSE y \in S : \A z \in S : y <= z
         IN  f[x] + ISumSet(S \ {x}, f)

\* dot product of two K-vectors
Dot(a, b) == DSumSeq([c \in Chan |-> DMul(a[c], b[c])])

VZero == [c \in Chan |-> DZero]
IZero == [c \in Chan |-> 0]
VOnes == [c \in Chan |-> DInt(1)]
VUnit(d) == [c \in Chan |-> IF c = d THEN DInt(1) ELSE DZero]


(***************************************************************************)
(* Program constants of fused_chunk.py.                                    *)
(***************************************************************************)
\* FusedChunkGLAFunction.forward: BT = 16  # chunk_size
BT == 16
\* FusedChunkGLAFunction.forward: chunk_size = 16 (intra-chunk part)
chunk_size == 16
\* pad(x, chunk_size=16)
pad_chunk_size == 16

cdiv(a, b) == (a + b - 1) \div b

\* ceildiv(a, b) = -(a // -b), Python floor division
ceildiv(a, b) == 0 - ((0 - a) \div b)

(***************************************************************************)
(* State of one call of the fused-chunk GLA forward pass.                  *)
(***************************************************************************)
VARIABLES
    pc,             \* position of the host code
    entry,          \* "apply": FusedChunkGLAFunction.apply called directly;
                    \* "fused_chunk_gla": called through the wrapper
    head_first,     \* the wrapper's head_first argument
    shape,          \* <<n1, n2>>: sizes of dimensions 1 and 2 of q, k, v, g
    rows,           \* the caller's q, k, v, g: <<i1, i2>> |-> [q, k, v, g],
                    \* the rows not in the domain are zero
    scale,          \* the scale argument
    initial_state,  \* None or Some([unit |-> K-vector])
    x,              \* q, k, v, g as handed to FusedChunkGLAFunction.forward
    seq_len,        \* the wrapper's seq_len
    H,              \* k.shape[1] in forward
    T,              \* k.shape[2] in forward
    g,              \* forward's g: the chunk-local cumulative sum of the gate
    q_g,            \* q_g[unit][t]: K-vector
    k_g,            \* k_g[unit][t]: K-vector
    pend,           \* program instances of the running launch not yet executed
    b_h,            \* b_h[unit]: the state of the forward kernel instance
    i_loop,         \* i_loop[unit]: the loop variable i of the forward kernel
    o,              \* o[unit][t] (the single key block NK = 1, summed)
    final_state,    \* None or Some([unit |-> K-vector])
    A,              \* A[unit][chunk][i][j]
    ret_o           \* the output tensor returned to the caller

glaVars == <<pc, entry, head_first, shape, rows, scale, initial_state, x,
             seq_len, H, T, g, q_g, k_g, pend, b_h, i_loop, o, final_state,
             A, ret_o>>

(***************************************************************************)
(* State of one call of chunk_dplr_bwd_dhu, and of the comparison of a     *)
(* variable-length call with the calls on its sliced sequences.            *)
(***************************************************************************)
VARIABLES
    dpc,        \* position of the host code of chunk_dplr_bwd_dhu
    call,       \* the arguments of the running call
    err,        \* the exception the call raised, or "none"
    loc,        \* the host's locals: BT, BC, BK, BV, N, NT, chunk_offsets
    dh,         \* None before the allocation, then Some([slot |-> value])
    dh0,        \* None, or Some([i_nh |-> value])
    dv2,        \* None before the allocation, then Some([row |-> value])
    k_pc,       \* k_pc[i_nh]: position of the kernel instance
    b_dh,       \* b_dh[i_nh]: the state gradient the instance carries
    loop_i_t,   \* loop_i_t[i_nh]: the chunk loop variable i_t of the instance
    visited,    \* visited[i_nh]: the chunks the instance went through, each
                \* <<i_t, last_idx + 1 - i_t * BT, slot of dh written>>
    flat,       \* the variable-length call and its results, once finished
    cur         \* the sequence whose sliced call is running, or -1

dhuVars == <<dpc, call, err, loc, dh, dh0, dv2, k_pc, b_dh, loop_i_t, visited,
             flat, cur>>

(***************************************************************************)
(* State of one LinearAttention layer.                                     *)
(***************************************************************************)
VARIABLES
    lpc,        \* "new", "constructed", "raised", "returned", "forward_raised"
    largs,      \* the arguments of LinearAttention.__init__
    lself,      \* None, or Some(the attributes of the constructed layer)
    lerr,       \* the exception raised, or "none"
    lcalled     \* the attention function forward has called, or "none"

laVars == <<lpc, largs, lself, lerr, lcalled>>

(***************************************************************************)
(* State of one call of FusedChunkGLAFunction.backward, which follows the  *)
(* forward pass on the same tensors.                                       *)
(***************************************************************************)
VARIABLES
    bpc,        \* position of the host code of backward
    do,         \* the gradient of o: <<unit, t>> |-> value, zero elsewhere
    dht,        \* the gradient of final_state: None or Some([unit |-> K-vector])
    bk_phase,   \* bk_phase[i_bh]: "dq", "dkv" or "done", the loop the kernel
                \* instance is in
    bk_i,       \* bk_i[i_bh]: the loop variable i of the kernel instance
    bk_h,       \* bk_h[i_bh]: b_h of the kernel instance
    bk_dh,      \* bk_dh[i_bh]: b_dh of the kernel instance
    dq,         \* dq[unit][t]: inter-chunk part, then the combined gradient
    dk,         \* dk[unit][t]: inter-chunk part, then the combined gradient
    dv,         \* dv[unit][t]: inter-chunk part
    dA2,        \* dA2[unit][n][i][j]
    dv2_intra,  \* dv2[unit][t], the intra-chunk part of dv
    dq2,        \* dq2[unit][t], the intra-chunk part of dq
    dk2,        \* dk2[unit][t], the intra-chunk part of dk
    dg,         \* dg[unit][t] as bwd_decay_global_cumsum leaves it
    bpend,      \* the program instances of the running launch still to run
    grads       \* None, or Some([dq, dk, dv, dg]) as backward returns them

bwdVars == <<bpc, do, dht, bk_phase, bk_i, bk_h, bk_dh, dq, dk, dv, dA2,
             dv2_intra, dq2, dk2, dg, bpend, grads>>

(***************************************************************************)
(* The launch geometry of the fused-chunk GLA kernels and the blocks of    *)
(* memory their program instances store.                                   *)
(***************************************************************************)
VARIABLES
    kpc,        \* position of the host code
    kshape,     \* the shape [B, H, T, K, V] of the call
    kgrid,      \* BK, BV, NK, NV of the running launch
    kran,       \* the program instances <<i_v, i_k, i_bh>> that have run
    kstores     \* the blocks stored by the instances that have run

gridVars == <<kpc, kshape, kgrid, kran, kstores>>

otherVars == <<laVars, bwdVars, gridVars>>

vars == <<glaVars, dhuVars, otherVars>>

\* a value never written by the program: the content of torch.empty memory
Uninit == <<0, 0 - 1>>

ZeroRow == [q |-> VZero, k |-> VZero, v |-> DZero, g |-> IZero]

\* row t of unit u of the tensors handed to forward
XRow(u, t) == IF <<u, t>> \in DOMAIN x THEN x[<<u, t>>] ELSE ZeroRow

NTof(len) == cdiv(len, BT)

(***************************************************************************)
(* Inputs.                                                                 *)
(***************************************************************************)
\* offsets in a chunk of the rows that may carry data
DataOffsets == {0, BT - 1}

QVals == {VOnes, VUnit(1)}
KVals == {VOnes, VUnit(KDim)}
GVals == {IZero, [c \in Chan |-> IF c = 1 THEN 0 - 1 ELSE 0], [c \in Chan |-> 0 - 1]}
RowVals == [q : QVals, k : KVals, v : {DInt(1)}, g : GVals]
ScaleVals == {<<1, 1>>}

\* the sparse tensors with at most MaxRows data rows at the positions P
SparseRows(P) ==
    UNION { [S -> RowVals] : S \in {S0 \in SUBSET P : Cardinality(S0) <= MaxRows} }

\* an optional argument: None, or Some(value)
None == <<>>
Some(val) == <<val>>
IsNone(opt) == Len(opt) = 0
Val(opt) == opt[1]

InitCommon ==
    /\ scale \in ScaleVals
    /\ g = <<>> /\ q_g = <<>> /\ k_g = <<>> /\ pend = {} /\ b_h = <<>>
    /\ i_loop = <<>> /\ o = <<>> /\ final_state = None /\ A = <<>>
    /\ ret_o = <<>>

\* FusedChunkGLAFunction.apply(q, k, v, g, scale, initial_state, True) on
\* tensors [B, H, T, K] with one head and T a multiple of 16
InitApply ==
    /\ entry = "apply" /\ head_first = FALSE /\ pc = "forward"
    /\ \E nt \in 1..MaxNT :
         /\ shape = <<1, BT * nt>>
         /\ rows \in SparseRows({<<0, BT * c + d>> : c \in 0..(nt - 1), d \in DataOffsets})
    /\ initial_state \in {None, Some([u \in {0} |-> VOnes])}
    /\ x = rows /\ H = shape[1] /\ T = shape[2] /\ seq_len = 0
    /\ InitCommon

\* fused_chunk_gla(q, k, v, g, scale, None, True, head_first)
InitWrapper ==
    /\ entry = "fused_chunk_gla" /\ head_first \in BOOLEAN /\ pc = "fused_chunk_gla"
    /\ \E n1 \in 1..MaxDim, n2 \in 1..MaxDim :
         /\ shape = <<n1, n2>>
         /\ rows \in SparseRows((0..(n1 - 1)) \X (0..(n2 - 1)))
    /\ initial_state = None
    /\ x = <<>> /\ H = 0 /\ T = 0 /\ seq_len = 0
    /\ InitCommon

\* no call of chunk_dplr_bwd_dhu is in progress
DhuIdle ==
    /\ dpc = "idle" /\ call = <<>> /\ err = "none" /\ loc = <<>>
    /\ dh = None /\ dh0 = None /\ dv2 = None
    /\ k_pc = <<>> /\ b_dh = <<>> /\ loop_i_t = <<>> /\ visited = <<>>
    /\ flat = None /\ cur = 0 - 1

\* no call of the fused-chunk GLA forward pass is in progress
GlaIdle ==
    /\ pc = "idle" /\ entry = "none" /\ head_first = FALSE /\ shape = <<>>
    /\ rows = <<>> /\ scale = DZero /\ initial_state = None /\ x = <<>>
    /\ seq_len = 0 /\ H = 0 /\ T = 0 /\ g = <<>> /\ q_g = <<>> /\ k_g = <<>>
    /\ pend = {} /\ b_h = <<>> /\ i_loop = <<>> /\ o = <<>>
    /\ final_state = None /\ A = <<>> /\ ret_o = <<>>

\* no LinearAttention layer is being constructed
LaIdle ==
    /\ lpc = "idle" /\ largs = <<>> /\ lself = None /\ lerr = "none"
    /\ lcalled = "none"

\* no backward pass is asked for
BwdIdle ==
    /\ bpc = "idle" /\ do = <<>> /\ dht = None
    /\ bk_phase = <<>> /\ bk_i = <<>> /\ bk_h = <<>> /\ bk_dh = <<>>
    /\ dq = <<>> /\ dk = <<>> /\ dv = <<>> /\ dA2 = <<>> /\ dv2_intra = <<>>
    /\ dq2 = <<>> /\ dk2 = <<>> /\ dg = <<>> /\ bpend = {} /\ grads = None

\* no launch geometry is being computed
GridIdle ==
    kpc = "idle" /\ kshape = <<>> /\ kgrid = <<>> /\ kran = {} /\ kstores = {}

OthersIdle == LaIdle /\ BwdIdle /\ GridIdle

InitGLA == (InitApply \/ InitWrapper) /\ DhuIdle /\ OthersIdle

(***************************************************************************)
(* fused_chunk_gla: the wrapper, up to the call of apply.                  *)
(***************************************************************************)
\* rearrange(x, 'b h t ... -> b t h ...'): dimensions 1 and 2 exchanged
Rearrange(xs) == [p \in {<<pp[2], pp[1]>> : pp \in DOMAIN xs} |-> xs[<<p[2], p[1]>>]]

\* a pad that always appends a block, also to a multiple of 16
pad_always(len) == (len \div pad_chunk_size + 1) * pad_chunk_size

\* pad(x): the length of dimension -2 after padding; the added rows are zero
pad(len) ==
    LET padded_seq_len == ceildiv(len, pad_chunk_size) * pad_chunk_size
    IN  IF len % pad_chunk_size # 0 THEN padded_seq_len ELSE len

\* the shape <<dim 1, dim 2>> of q after the optional rearrange
WrapperShape == IF head_first THEN <<shape[2], shape[1]>> ELSE shape

fused_chunk_gla ==
    /\ pc = "fused_chunk_gla"
    /\ x' = IF head_first THEN Rearrange(rows) ELSE rows
    /\ seq_len' = WrapperShape[2]
    /\ H' = WrapperShape[1]
    /\ T' = pad(WrapperShape[2])
    /\ pc' = "forward"
    /\ UNCHANGED <<entry, head_first, shape, rows, scale, initial_state, g, q_g,
                   k_g, pend, b_h, i_loop, o, final_state, A, ret_o,
                   dhuVars, otherVars>>

(***************************************************************************)
(* FusedChunkGLAFunction.forward, host code and kernels.  The launches of  *)
(* one call run in stream order; the program instances of one launch run   *)
(* in any order.  B = 1, NK = NV = 1: a program instance is named by its   *)
(* chunk (where the grid has one) and its unit i_bh.                       *)
(***************************************************************************)
Units == 0..(H - 1)
Times == 0..(T - 1)

\* chunk_local_cumsum(g_org, chunk_size): cumsum[t] is the sum of the gate
\* from the start of t's chunk to t
chunk_local_cumsum(u, len, csize) ==
    LET cum[t \in 0..(len - 1)] ==
            IF t % csize = 0 THEN XRow(u, t).g
            ELSE [c \in Chan |-> cum[t - 1][c] + XRow(u, t).g[c]]
    IN  [t \in 0..(len - 1) |-> cum[t]]

\* forward up to the launch of prepare_qg_kg
forward ==
    /\ pc = "forward"
    /\ g' = [u \in Units |-> chunk_local_cumsum(u, T, BT)]
    /\ o' = [u \in Units |-> [t \in Times |-> Uninit]]
    /\ q_g' = [u \in Units |-> [t \in Times |-> [c \in Chan |-> Uninit]]]
    /\ k_g' = [u \in Units |-> [t \in Times |-> [c \in Chan |-> Uninit]]]
    /\ pend' = {<<i_c, i_bh>> : i_c \in 0..(cdiv(T, BT) - 1), i_bh \in Units}
    /\ pc' = "prepare_qg_kg"
    /\ UNCHANGED <<entry, head_first, shape, rows, scale, initial_state, x,
                   seq_len, H, T, b_h, i_loop, final_state, A, ret_o,
                   dhuVars, otherVars>>

\* a chunk-total decay read one row further on: the first row of the next chunk
last_decay_row_next(i_c) == i_c * BT + BT

\* prepare_qg_kg: the row i_c * BT + BT - 1 of g that last_decay is loaded from
last_decay_row(i_c) == i_c * BT + BT - 1

\* prepare_qg_kg: last_decay, the cumulative gate of the last row of chunk i_c
last_decay(i_c, i_bh) == g[i_bh][last_decay_row(i_c)]

\* mutant: the scale is not applied
prepare_b_q_noscale(b_q, b_g) == [c \in Chan |-> DMul(b_q[c], exp(b_g[c]))]

\* prepare_qg_kg: b_q *= exp(b_g) * scale
prepare_b_q(b_q, b_g) == [c \in Chan |-> DMul(DMul(b_q[c], exp(b_g[c])), scale)]

\* mutant: the key is not decayed to the end of its chunk
prepare_b_k_nolast(b_k, b_g, b_last) == [c \in Chan |-> DMul(b_k[c], exp(0 - b_g[c]))]

\* prepare_qg_kg: b_k *= exp(last_decay - b_g)
prepare_b_k(b_k, b_g, b_last) == [c \in Chan |-> DMul(b_k[c], exp(b_last[c] - b_g[c]))]

\* one program instance of prepare_qg_kg: the BT rows of chunk i_c, in the
\* launch of forward or in the launch of backward
prepare_qg_kg(i_c, i_bh) ==
    /\ "prepare_qg_kg" \in {pc, bpc}
    /\ <<i_c, i_bh>> \in pend
    /\ LET inchunk(t) == i_c * BT <= t /\ t < i_c * BT + BT
       IN  /\ q_g' = [q_g EXCEPT ![i_bh] = [t \in Times |->
                        IF inchunk(t)
                        THEN prepare_b_q(XRow(i_bh, t).q, g[i_bh][t])
                        ELSE q_g[i_bh][t]]]
           /\ k_g' = [k_g EXCEPT ![i_bh] = [t \in Times |->
                        IF inchunk(t)
                        THEN prepare_b_k(XRow(i_bh, t).k, g[i_bh][t], last_decay(i_c, i_bh))
                        ELSE k_g[i_bh][t]]]
    /\ pend' = pend \ {<<i_c, i_bh>>}
    /\ UNCHANGED <<pc, entry, head_first, shape, rows, scale, initial_state, x,
                   seq_len, H, T, g, b_h, i_loop, o, final_state, A, ret_o,
                   dhuVars, otherVars>>

\* the kernel's b_h before its loop: zero, plus h0 with USE_INITIAL_STATE
fwd_kernel_b_h0(i_bh) ==
    IF IsNone(initial_state) THEN VZero ELSE Val(initial_state)[i_bh]

\* forward from the allocation of final_state to the launch of
\* fused_chunk_gla_fwd_kernel (output_final_state = True)
forward_launch_fwd ==
    /\ pc = "prepare_qg_kg"
    /\ pend = {}
    /\ final_state' = Some([u \in Units |-> [c \in Chan |-> Uninit]])
    /\ b_h' = [u \in Units |-> fwd_kernel_b_h0(u)]
    /\ i_loop' = [u \in Units |-> 0]
    /\ pend' = {<<0, i_bh>> : i_bh \in Units}
    /\ pc' = "fused_chunk_gla_fwd_kernel"
    /\ UNCHANGED <<entry, head_first, shape, rows, scale, initial_state, x,
                   seq_len, H, T, g, q_g, k_g, o, A, ret_o,
                   dhuVars, otherVars>>

\* a block-pointer load of row t with boundary_check: zero outside the tensor
LoadRow(tensor, t, zero) == IF t \in DOMAIN tensor THEN tensor[t] ELSE zero

\* fused_chunk_gla_fwd_kernel: b_o = tl.dot(b_q, b_h), row r of chunk i
fwd_kernel_b_o(i_bh, i, r, h) == Dot(LoadRow(q_g[i_bh], i * BT + r, VZero), h)

\* the row of g that p_gn points to in iteration i: (BT - 1), advanced by BT
\* at the end of every iteration
fwd_kernel_gn_row(i) == (BT - 1) + i * BT

\* fused_chunk_gla_fwd_kernel: b_gn, loaded from p_gn in iteration i
fwd_kernel_b_gn(i_bh, i) == g[i_bh][fwd_kernel_gn_row(i)]

\* fused_chunk_gla_fwd_kernel: b_h = b_h * exp(b_gn)[:, None] + tl.dot(b_k, b_v)
fwd_kernel_b_h(i_bh, i, h) ==
    [c \in Chan |->
        LET kv == [r \in 0..(BT - 1) |->
                     DMul(LoadRow(k_g[i_bh], i * BT + r, VZero)[c],
                          IF i * BT + r < T THEN XRow(i_bh, i * BT + r).v ELSE DZero)]
        IN  DAdd(DMul(h[c], exp(fwd_kernel_b_gn(i_bh, i)[c])), DSumRange(kv, 0, BT - 1))]

\* one iteration of the chunk loop of one program instance
fused_chunk_gla_fwd_kernel(i_bh) ==
    /\ pc = "fused_chunk_gla_fwd_kernel"
    /\ <<0, i_bh>> \in pend
    /\ i_loop[i_bh] < cdiv(T, BT)
    /\ LET i == i_loop[i_bh]
       IN  /\ o' = [o EXCEPT ![i_bh] = [t \in Times |->
                      IF i * BT <= t /\ t < i * BT + BT
                      THEN fwd_kernel_b_o(i_bh, i, t - i * BT, b_h[i_bh])
                      ELSE o[i_bh][t]]]
           /\ b_h' = [b_h EXCEPT ![i_bh] = fwd_kernel_b_h(i_bh, i, b_h[i_bh])]
           /\ i_loop' = [i_loop EXCEPT ![i_bh] = i + 1]
    /\ UNCHANGED <<pc, entry, head_first, shape, rows, scale, initial_state, x,
                   seq_len, H, T, g, q_g, k_g, pend, final_state, A, ret_o,
                   dhuVars, otherVars>>

\* the end of a program instance: STORE_FINAL_STATE
fused_chunk_gla_fwd_kernel_store(i_bh) ==
    /\ pc = "fused_chunk_gla_fwd_kernel"
    /\ <<0, i_bh>> \in pend
    /\ i_loop[i_bh] >= cdiv(T, BT)
    /\ final_state' = Some([Val(final_state) EXCEPT ![i_bh] = b_h[i_bh]])
    /\ pend' = pend \ {<<0, i_bh>>}
    /\ UNCHANGED <<pc, entry, head_first, shape, rows, scale, initial_state, x,
                   seq_len, H, T, g, q_g, k_g, b_h, i_loop, o, A, ret_o,
                   dhuVars, otherVars>>

\* forward from o.sum(0) to the launch of fwd_inner_chunk
forward_launch_inner ==
    /\ pc = "fused_chunk_gla_fwd_kernel"
    /\ pend = {}
    /\ A' = [u \in Units |-> [n \in 0..(cdiv(T, BT) - 1) |->
                [i \in 0..(BT - 1) |-> [j \in 0..(BT - 1) |-> Uninit]]]]
    /\ pend' = {<<i_t, i_bh>> : i_t \in 0..(cdiv(T, BT) - 1), i_bh \in Units}
    /\ pc' = "fwd_inner_chunk"
    /\ UNCHANGED <<entry, head_first, shape, rows, scale, initial_state, x,
                   seq_len, H, T, g, q_g, k_g, b_h, i_loop, o, final_state, ret_o,
                   dhuVars, otherVars>>

\* mutant: the decay between the two positions is left out
inner_score_undecayed(i_bh, i_t, i, j) ==
    LET b_q  == XRow(i_bh, i_t * BT + i).q
        b_k  == IF i_t * BT + j < T THEN XRow(i_bh, i_t * BT + j).k ELSE VZero
    IN  DSumSeq([c \in Chan |-> DMul(DMul(b_q[c], scale), b_k[c])])

\* fwd_inner_chunk: s = b_q[None, :] * b_k * safe_exp(b_gq[None, :] - b_g),
\* score = tl.sum(s, axis=1), for row i and column j of chunk i_t
inner_score(i_bh, i_t, i, j) ==
    LET b_q  == XRow(i_bh, i_t * BT + i).q
        b_gq == g[i_bh][i_t * BT + i]
        b_k  == IF i_t * BT + j < T THEN XRow(i_bh, i_t * BT + j).k ELSE VZero
        b_g  == LoadRow(g[i_bh], i_t * BT + j, IZero)
    IN  DSumSeq([c \in Chan |->
            DMul(DMul(DMul(b_q[c], scale), b_k[c]), safe_exp(b_gq[c] - b_g[c]))])

\* mutant: the diagonal is masked out
inner_mask_strict(i, o_i) == o_i < i

\* fwd_inner_chunk: score = tl.where(o_i <= i, score, 0)
inner_mask(i, o_i) == o_i <= i

\* one program instance of fwd_inner_chunk: the matrix A of chunk i_t
fwd_inner_chunk(i_t, i_bh) ==
    /\ pc = "fwd_inner_chunk"
    /\ <<i_t, i_bh>> \in pend
    /\ A' = [A EXCEPT ![i_bh][i_t] =
                [i \in 0..(BT - 1) |-> [j \in 0..(BT - 1) |->
                    IF inner_mask(i, j) THEN inner_score(i_bh, i_t, i, j) ELSE DZero]]]
    /\ pend' = pend \ {<<i_t, i_bh>>}
    /\ UNCHANGED <<pc, entry, head_first, shape, rows, scale, initial_state, x,
                   seq_len, H, T, g, q_g, k_g, b_h, i_loop, o, final_state, ret_o,
                   dhuVars, otherVars>>

\* mutant: the product leaves out the position's own value
forward_o2_offdiag(i_bh, t) ==
    LET n  == t \div chunk_size
        i  == t % chunk_size
        av == [j \in 0..(chunk_size - 1) |->
                 IF j = i THEN DZero
                 ELSE DMul(A[i_bh][n][i][j], XRow(i_bh, n * chunk_size + j).v)]
    IN  DSumRange(av, 0, chunk_size - 1)

\* forward: o2 = A @ v2, with v2 = rearrange(v, 'b h (n c) d -> b h n c d')
forward_o2(i_bh, t) ==
    LET n  == t \div chunk_size
        i  == t % chunk_size
        av == [j \in 0..(chunk_size - 1) |->
                 DMul(A[i_bh][n][i][j], XRow(i_bh, n * chunk_size + j).v)]
    IN  DSumRange(av, 0, chunk_size - 1)

\* forward from A.sum(0) to the return: o.add_(o2)
forward_combine ==
    /\ pc = "fwd_inner_chunk"
    /\ pend = {}
    /\ o' = [u \in Units |-> [t \in Times |-> DAdd(o[u][t], forward_o2(u, t))]]
    /\ IF entry = "apply"
       THEN pc' = "done" /\ ret_o' = o'
       ELSE pc' = "fused_chunk_gla_return" /\ ret_o' = ret_o
    /\ UNCHANGED <<entry, head_first, shape, rows, scale, initial_state, x,
                   seq_len, H, T, g, q_g, k_g, pend, b_h, i_loop, final_state, A,
                   dhuVars, otherVars>>

\* fused_chunk_gla after apply: o = o[..., :seq_len, :], and with head_first
\* rearrange(o, 'b t h ... -> b h t ...')
fused_chunk_gla_return ==
    /\ pc = "fused_chunk_gla_return"
    /\ ret_o' = IF head_first
                THEN [i1 \in 0..(seq_len - 1) |-> [i2 \in Units |-> o[i2][i1]]]
                ELSE [i1 \in Units |-> [i2 \in 0..(seq_len - 1) |-> o[i1][i2]]]
    /\ pc' = "done"
    /\ UNCHANGED <<entry, head_first, shape, rows, scale, initial_state, x,
                   seq_len, H, T, g, q_g, k_g, pend, b_h, i_loop, o, final_state, A,
                   dhuVars, otherVars>>

NextGLA ==
    \/ fused_chunk_gla
    \/ forward
    \/ \E i_c \in 0..(MaxNT - 1), i_bh \in 0..(MaxDim - 1) : prepare_qg_kg(i_c, i_bh)
    \/ forward_launch_fwd
    \/ \E i_bh \in 0..(MaxDim - 1) : fused_chunk_gla_fwd_kernel(i_bh)
    \/ \E i_bh \in 0..(MaxDim - 1) : fused_chunk_gla_fwd_kernel_store(i_bh)
    \/ forward_launch_inner
    \/ \E i_t \in 0..(MaxNT - 1), i_bh \in 0..(MaxDim - 1) : fwd_inner_chunk(i_t, i_bh)
    \/ forward_combine
    \/ fused_chunk_gla_return

SpecGLA == InitGLA /\ [][NextGLA]_vars

(***************************************************************************)
(* The sequential reference of the gated recurrence, on the tensors handed *)
(* to forward:  S_t = S_{t-1} * exp(gate_t) + key_t^T value_t.             *)
(***************************************************************************)
S0(u) == IF IsNone(initial_state) THEN VZero ELSE Val(initial_state)[u]

\* the state after the timesteps 0 .. n-1 of unit u
RECURSIVE RefState(_, _)
RefState(u, n) ==
    IF n = 0 THEN S0(u)
    ELSE LET S == RefState(u, n - 1)
             r == XRow(u, n - 1)
         IN  [c \in Chan |-> DAdd(DMul(S[c], exp(r.g[c])), DMul(r.k[c], r.v))]

\* the timesteps of unit u whose row carries data
DataTimes(u) == {p[2] : p \in {pp \in DOMAIN x : pp[1] = u}}

\* the sum of gate[s, c] for lo < s <= hi (the rows without data have gate 0)
GateSum(u, lo, hi, c) ==
    LET S == {s \in DataTimes(u) : lo < s /\ s <= hi}
    IN  ISumSet(S, [s \in S |-> XRow(u, s).g[c]])

\* scale * sum over j <= t, c of q[t,c] k[j,c] exp(sum of gate[s,c], j < s <= t) v[j]
\*  + scale * sum over c of q[t,c] exp(sum of gate[s,c], s <= t) S_0[c]
\* (the rows without data contribute zero terms)
ClosedFormOut(u, t) ==
    LET J == {j \in DataTimes(u) : j <= t}
        term(j) == DSumSeq([c \in Chan |->
                      DMul(DMul(DMul(XRow(u, t).q[c], XRow(u, j).k[c]),
                                exp(GateSum(u, j, t, c))), XRow(u, j).v)])
        init == DSumSeq([c \in Chan |->
                      DMul(DMul(XRow(u, t).q[c], exp(GateSum(u, 0 - 1, t, c))), S0(u)[c])])
    IN  DMul(scale, DAdd(DSumSet(J, [j \in J |-> term(j)]), init))

\* C1: the final state forward returns equals the final state S_T of the
\* one-timestep-at-a-time recurrence started from the initial state (or zero),
\* for every unit and every padded length
C1_FinalStateIsRecurrence ==
    pc = "done" => \A u \in Units : Val(final_state)[u] = RefState(u, T)

\* a two-chunk call with an initial state whose final state was decayed
C1_Witness ==
    /\ pc = "done" /\ entry = "apply" /\ T = 2 * BT
    /\ ~IsNone(initial_state)
    /\ \E c \in Chan : Val(final_state)[0][c][2] > 0
    /\ \E p \in DOMAIN x : p[2] >= BT /\ x[p].g # IZero

\* C2: the output at every position t equals the closed form in which the
\* decay of every step between j and t is applied, j = t included, plus the
\* initial-state term
C2_OutputIsClosedForm ==
    pc = "done" => \A u \in Units : \A t \in Times : o[u][t] = ClosedFormOut(u, t)

\* an output that gathers a key of an earlier chunk across a decayed step
C2_Witness ==
    /\ pc = "done" /\ entry = "apply"
    /\ \E j \in DataTimes(0), t \in DataTimes(0) :
         /\ j < BT /\ t >= BT
         /\ Dot(XRow(0, t).q, XRow(0, j).k) # DZero
         /\ XRow(0, t).g # IZero
         /\ o[0][t][2] > 1

\* C3 as stated: the output at t is query_t applied to S_{t-1} decayed by
\* gate_t, without the contribution of key_t and value_t
C3_OutputExcludesOwnKeyValue ==
    pc = "done" =>
        \A u \in Units : \A t \in Times :
            o[u][t] = DMul(scale, Dot(XRow(u, t).q,
                         [c \in Chan |-> DMul(RefState(u, t)[c], exp(XRow(u, t).g[c]))]))

\* C3 amended: the output at t is scale * query_t applied to S_t, the state
\* after timestep t's own key/value outer product has been added
C3_OutputIncludesOwnKeyValue ==
    pc = "done" =>
        \A u \in Units : \A t \in Times :
            o[u][t] = DMul(scale, Dot(XRow(u, t).q, RefState(u, t + 1)))

\* an output that consists of the position's own key/value contribution
C3_Witness ==
    /\ pc = "done"
    /\ \E u \in Units : \E t \in DataTimes(u) :
         /\ Dot(XRow(u, t).q, XRow(u, t).k) # DZero
         /\ RefState(u, t) = VZero
         /\ o[u][t] # DZero

AllGatesZero == \A p \in DOMAIN x : x[p].g = IZero

\* ungated causal linear attention
UngatedOut(u, t) ==
    LET J == {j \in DataTimes(u) : j <= t}
    IN  DMul(scale, DAdd(DSumSet(J, [j \in J |->
                            DMul(Dot(XRow(u, t).q, XRow(u, j).k), XRow(u, j).v)]),
                         Dot(XRow(u, t).q, S0(u))))

UngatedState(u) ==
    [c \in Chan |->
        LET J == DataTimes(u)
        IN  DAdd(S0(u)[c], DSumSet(J, [j \in J |-> DMul(XRow(u, j).k[c], XRow(u, j).v)]))]

\* C5: with the gate zero everywhere forward is ungated causal linear
\* attention: output_t = scale * (sum over j <= t of (q_t . k_j) v_j + q_t . S_0),
\* final state = S_0 + sum over j of k_j^T v_j
C5_ZeroGateIsLinearAttention ==
    (pc = "done" /\ AllGatesZero) =>
        \A u \in Units :
            /\ \A t \in Times : o[u][t] = UngatedOut(u, t)
            /\ Val(final_state)[u] = UngatedState(u)

\* a zero-gate call over two chunks with an initial state and two data rows
C5_Witness ==
    /\ pc = "done" /\ AllGatesZero /\ entry = "apply" /\ T = 2 * BT
    /\ ~IsNone(initial_state)
    /\ Cardinality(DOMAIN x) = 2
    /\ \E t \in Times : o[0][t] # DZero /\ o[0][t] # DMul(scale, DInt(KDim))

(***************************************************************************)
(* fused_chunk_gla with head_first = False, read as the caller reads it:   *)
(* tensors [B, T, H, ...], rows[<<t, h>>] the row of time t and head h.    *)
(***************************************************************************)
CallerRow(t, h) == IF <<t, h>> \in DOMAIN rows THEN rows[<<t, h>>] ELSE ZeroRow

\* the gated recurrence of head h along the time axis, in closed form
TimeAxisOut(t, h) ==
    LET term(j) == DSumSeq([c \in Chan |->
                      DMul(DMul(DMul(CallerRow(t, h).q[c], CallerRow(j, h).k[c]),
                                exp(ISumSet((j + 1)..t,
                                            [s \in (j + 1)..t |-> CallerRow(s, h).g[c]]))),
                           CallerRow(j, h).v)])
    IN  DMul(scale, DSumSet(0..t, [j \in 0..t |-> term(j)]))

\* C10 as stated: with head_first = False the padded and scanned axis is the
\* time axis (dimension 1), every head (dimension 2) is a unit with its own
\* state, and the output has the input's time length
C10_TimeAxisIsScanned ==
    (pc = "done" /\ entry = "fused_chunk_gla" /\ ~head_first) =>
        /\ H = shape[2]
        /\ T = pad(shape[1])
        /\ DOMAIN ret_o = 0..(shape[1] - 1)
        /\ \A t \in 0..(shape[1] - 1) : \A h \in 0..(shape[2] - 1) :
               ret_o[t][h] = TimeAxisOut(t, h)

(***************************************************************************)
(* chunk_dplr_bwd_dhu.  One head (H = 1) and one value column (V = 1); the *)
(* tensors carry data in key channel 0 only, so that a K x V state         *)
(* gradient is given by its entry [0, 0].  Rows are named by their index   *)
(* on the flattened batch-time axis.                                       *)
(***************************************************************************)
\* triton.next_power_of_2(n)
RECURSIVE Np2From(_, _)
Np2From(pw, n) == IF pw >= n THEN pw ELSE Np2From(2 * pw, n)
next_power_of_2(n) == IF n <= 0 THEN 0 ELSE Np2From(1, n)

Min(a, b) == IF a <= b THEN a ELSE b
Max(a, b) == IF a >= b THEN a ELSE b

\* the smallest BT the sequence length allows: max(next_power_of_2(T), 16)
MinBT == 16

\* the non-zero rows of qg, bg, w, gk, do, dv of the model
RowKinds ==
    { [qg |-> DInt(1), bg |-> DZero, w |-> DZero, gk |-> 0, do |-> DInt(1), dv |-> DZero],
      [qg |-> DZero, bg |-> DInt(1), w |-> DInt(1), gk |-> 0 - 1, do |-> DZero, dv |-> DInt(1)] }

\* every other row
NoData == [qg |-> DZero, bg |-> DZero, w |-> DZero, gk |-> 0, do |-> DZero, dv |-> DZero]

Tiers == {"hopper", "ampere", "other"}

\* the chunk_size arguments of the model
ChunkSizes == {MinBT, 2 * MinBT, 4 * MinBT}

\* sequence boundaries of the model: 0, 1 and one past a number of whole
\* chunks of 16
Marks == {0, 1} \cup {MinBT * n + 1 : n \in 1..MaxWhole}

\* the rows of a tensor of len rows that may carry data: the first and the
\* last row of every run of 16
DataRows(len) == {t \in 0..(len - 1) : t % MinBT \in {0, MinBT - 1}}

\* the inputs with at most MaxRows rows of data among the rows P
DhuInputs(P) ==
    UNION { [S -> RowKinds] : S \in {S \in SUBSET P : Cardinality(S) <= MaxRows} }

IS_VARLEN == ~IsNone(call.cu_seqlens)
USE_FINAL_STATE_GRADIENT == ~IsNone(call.dht)
USE_INITIAL_STATE == ~IsNone(dh0)

\* cu_seqlens as a sequence: cu_seqlens[n] of the code is Cu[n + 1]
Cu == Val(call.cu_seqlens)

\* the boundaries are strictly increasing: no sequence is empty
ValidLengths(cu) == \A n \in 1..(Len(cu) - 1) : cu[n] < cu[n + 1]

\* the boundary lists <<0, c1, .., cN>>
Boundaries ==
    UNION { {<<0>> \o s : s \in [1..n -> Marks]} : n \in 1..MaxSeqs }

\* a call: the tensors qg, bg, w, gk, do, dv of B * T rows are given by
\* their rows of data
NewCall(cu, B_, T_, K_, cs, tier, data, dht_, h0_) ==
    [cu_seqlens |-> cu, B |-> B_, T |-> T_, H |-> 1, K |-> K_, V |-> 1,
     chunk_size |-> cs, tier |-> tier, rows |-> data, dht |-> dht_, h0 |-> h0_]

InitDhuCommon ==
    /\ dpc = "chunk_dplr_bwd_dhu" /\ err = "none" /\ loc = <<>>
    /\ dh = None /\ dh0 = None /\ dv2 = None
    /\ k_pc = <<>> /\ b_dh = <<>> /\ loop_i_t = <<>> /\ visited = <<>>
    /\ flat = None /\ cur = 0 - 1

\* a variable-length call: qg of shape [1, T, H, K] with T = cu_seqlens[-1]
InitVarlen ==
    /\ \E cu \in Boundaries, cs \in ChunkSizes, hasdht \in BOOLEAN, h0_ \in BOOLEAN :
         LET T_ == cu[Len(cu)]
             N_ == Len(cu) - 1
         IN  \E data \in IF ValidLengths(cu) THEN DhuInputs(DataRows(T_)) ELSE {<<>>} :
                call = NewCall(Some(cu), 1, T_, 1, cs, "other", data,
                               IF hasdht THEN Some([n \in 0..(N_ - 1) |-> DInt(n + 1)])
                               ELSE None,
                               h0_)
    /\ InitDhuCommon

\* a fixed-length call: qg of shape [B, T, H, K]
InitFixed ==
    /\ \E B_ \in 1..MaxSeqs, T_ \in Marks \ {0}, cs \in ChunkSizes,
          hasdht \in BOOLEAN, h0_ \in BOOLEAN :
         \E data \in DhuInputs(DataRows(B_ * T_)) :
                call = NewCall(None, B_, T_, 1, cs, "other", data,
                               IF hasdht THEN Some([n \in 0..(B_ - 1) |-> DInt(n + 1)])
                               ELSE None,
                               h0_)
    /\ InitDhuCommon

\* calls of every key-channel width on every hardware tier
InitWidths ==
    /\ \E K_ \in 1..MaxKey, tier \in Tiers :
         call = NewCall(None, 1, 1, K_, MinBT, tier, <<>>, None, FALSE)
    /\ InitDhuCommon

\* key-channel widths on both sides of the K <= 128 test of the hopper tier
TileKeys == {1, 129}

\* calls of one chunk of 64 rows on every hardware tier: BC is 16, 32 or 64
InitTiles ==
    /\ \E tier \in Tiers, K_ \in TileKeys, hasdht \in BOOLEAN, h0_ \in BOOLEAN :
         LET T_ == MinBT * MaxWhole + 1
         IN  \E data \in DhuInputs(DataRows(T_)) :
                call = NewCall(None, 1, T_, K_, 4 * MinBT, tier, data,
                               IF hasdht THEN Some([n \in {0} |-> DInt(1)]) ELSE None,
                               h0_)
    /\ InitDhuCommon

InitDHU == (InitVarlen \/ InitFixed \/ InitWidths \/ InitTiles) /\ GlaIdle /\ OthersIdle

(***************************************************************************)
(* chunk_dplr_bwd_dhu: host code.                                          *)
(***************************************************************************)
\* the largest supported BK: assert BK <= 256
MaxBK == 256

\* BT = min(chunk_size, max(triton.next_power_of_2(T), 16))
host_BT(c) == Min(c.chunk_size, Max(next_power_of_2(c.T), MinBT))

\* BK = triton.next_power_of_2(K)
host_BK(c) == next_power_of_2(c.K)

\* mutant: the width check admits one more doubling
host_BK_ok_lax(c) == host_BK(c) <= 2 * MaxBK

\* assert BK <= 256
host_BK_ok(c) == host_BK(c) <= MaxBK

\* BV by hardware tier (check_shared_mem)
host_BV(c) == IF c.tier = "hopper" THEN 64 ELSE IF c.tier = "ampere" THEN 32 ELSE 16

\* BC by hardware tier, then BC = min(BT, BC)
host_BC(c) ==
    LET BC_ == IF c.tier = "hopper" THEN (IF c.K <= 128 THEN 64 ELSE 32)
               ELSE IF c.tier = "ampere" THEN 32 ELSE 16
    IN  Min(host_BT(c), BC_)

\* the length of sequence n (0-based) of the boundary list cu
SeqLen(cu, n) == cu[n + 2] - cu[n + 1]

\* the chunks <<sequence, chunk>> of the boundary list cu
ChunkList(cu, BT_) ==
    UNION { {<<n, i>> : i \in 0..(cdiv(SeqLen(cu, n), BT_) - 1)} : n \in 0..(Len(cu) - 2) }

\* prepare_chunk_indices(cu_seqlens, BT), the chunk indexer: the chunks of
\* every sequence; it fails with InvalidLengthError if a sequence is empty
\* or the boundaries are not monotonic
prepare_chunk_indices(cu, BT_) ==
    IF ~ValidLengths(cu) THEN [error |-> "InvalidLengthError", value |-> {}]
    ELSE [error |-> "none", value |-> ChunkList(cu, BT_)]

\* prepare_chunk_offsets(cu_seqlens, BT): for every sequence the number of
\* chunks of all earlier sequences
prepare_chunk_offsets(cu, BT_) ==
    [n \in 0..(Len(cu) - 2) |->
        ISumSet(0..(n - 1), [m \in 0..(n - 1) |-> cdiv(SeqLen(cu, m), BT_)])]

\* mutant: the chunks are counted without calling the chunk indexer
host_chunk_indices_inline(c) ==
    IF ~IsNone(c.cu_seqlens)
    THEN [error |-> "none", value |-> ChunkList(Val(c.cu_seqlens), host_BT(c))]
    ELSE [error |-> "none", value |-> {}]

\* chunk_indices = prepare_chunk_indices(cu_seqlens, BT) if cu_seqlens is not None else None
host_chunk_indices(c) ==
    IF ~IsNone(c.cu_seqlens) THEN prepare_chunk_indices(Val(c.cu_seqlens), host_BT(c))
    ELSE [error |-> "none", value |-> {}]

\* N, the number of sequences
host_N(c) == IF IsNone(c.cu_seqlens) THEN c.B ELSE Len(Val(c.cu_seqlens)) - 1

\* NT, the number of chunk slots per batch entry of dh
host_NT(c) ==
    IF IsNone(c.cu_seqlens) THEN cdiv(c.T, host_BT(c))
    ELSE Cardinality(host_chunk_indices(c).value)

host_chunk_offsets(c) ==
    IF IsNone(c.cu_seqlens) THEN None
    ELSE Some(prepare_chunk_offsets(Val(c.cu_seqlens), host_BT(c)))

\* NK = triton.cdiv(K, BK)
host_NK(c) == cdiv(c.K, host_BK(c))

\* chunk_dplr_bwd_dhu up to the choice of BV and BC: shapes, BT, BK, assert
chunk_dplr_bwd_dhu ==
    /\ dpc = "chunk_dplr_bwd_dhu"
    /\ IF host_BK_ok(call)
       THEN /\ dpc' = "prepare_chunk_indices"
            /\ err' = err
            /\ loc' = [BT |-> host_BT(call), BK |-> host_BK(call), BV |-> host_BV(call)]
       ELSE /\ dpc' = "raised"
            /\ err' = "AssertionError"
            /\ loc' = loc
    /\ UNCHANGED <<call, dh, dh0, dv2, k_pc, b_dh, loop_i_t, visited, flat, cur, glaVars, otherVars>>

\* chunk_dplr_bwd_dhu from prepare_chunk_indices to assert NK == 1
chunk_dplr_bwd_dhu_prepare ==
    /\ dpc = "prepare_chunk_indices"
    /\ IF host_chunk_indices(call).error # "none"
       THEN dpc' = "raised" /\ err' = host_chunk_indices(call).error /\ loc' = loc
       ELSE IF host_NK(call) # 1
       THEN dpc' = "raised" /\ err' = "AssertionError" /\ loc' = loc
       ELSE /\ dpc' = "allocate"
            /\ err' = err
            /\ loc' = [BT |-> loc.BT, BK |-> loc.BK, BV |-> loc.BV,
                       BC |-> host_BC(call), N |-> host_N(call), NT |-> host_NT(call),
                       chunk_offsets |-> host_chunk_offsets(call)]
    /\ UNCHANGED <<call, dh, dh0, dv2, k_pc, b_dh, loop_i_t, visited, flat, cur, glaVars, otherVars>>

(***************************************************************************)
(* chunk_dplr_bwd_kernel_dhu.  NK = NV = 1: a program instance is named by *)
(* i_nh.                                                                   *)
(***************************************************************************)
kernel_i_n(i_nh) == i_nh \div call.H
kernel_i_h(i_nh) == i_nh % call.H

\* bos: the first row of the instance's sequence
kernel_bos(i_nh) ==
    IF IS_VARLEN THEN Cu[kernel_i_n(i_nh) + 1] ELSE kernel_i_n(i_nh) * call.T

\* mutant: the sequence length is not taken from cu_seqlens
kernel_T_total(i_nh) == call.T

\* T: eos - bos with IS_VARLEN, the argument T otherwise
kernel_T(i_nh) ==
    IF IS_VARLEN THEN Cu[kernel_i_n(i_nh) + 2] - Cu[kernel_i_n(i_nh) + 1] ELSE call.T

\* NT = tl.cdiv(T, BT)
kernel_NT(i_nh) == cdiv(kernel_T(i_nh), loc.BT)

\* mutant: the chunk offset is i_n * NT in the variable-length case too
kernel_boh_fixed(i_nh) == kernel_i_n(i_nh) * kernel_NT(i_nh)

\* boh: the chunk offset of the instance's sequence
kernel_boh(i_nh) ==
    IF IS_VARLEN THEN Val(loc.chunk_offsets)[kernel_i_n(i_nh)]
    ELSE kernel_i_n(i_nh) * kernel_NT(i_nh)

\* mutant: the loop always starts from zero
kernel_b_dh0_zero(i_nh) == DZero

\* b_dh before the loop: zero, plus dht with USE_FINAL_STATE_GRADIENT
kernel_b_dh0(i_nh) == IF USE_FINAL_STATE_GRADIENT THEN Val(call.dht)[i_nh] ELSE DZero

\* the slot of dh chunk it of the instance is stored to
kernel_dh_slot(i_nh, it) == (kernel_boh(i_nh) + it) * call.H + kernel_i_h(i_nh)

\* a row of the instance's sequence loaded through a block pointer of shape
\* (T, ..) with boundary_check: zero outside 0 .. T-1
kernel_in_bounds(i_nh, t) == 0 <= t /\ t < kernel_T(i_nh)

kernel_row(i_nh, t) ==
    IF kernel_bos(i_nh) + t \in DOMAIN call.rows
    THEN call.rows[kernel_bos(i_nh) + t] ELSE NoData

\* the rows of the sequence a block pointer of sub-block i_c of chunk it
\* reaches: (i_t * BT + i_c * BC, ..) of height BC on a tensor of shape (T, ..)
\* with boundary_check
kernel_sub_block_rows(i_nh, it, i_c) ==
    LET first == it * loc.BT + i_c * loc.BC
    IN  {t \in first..(first + loc.BC - 1) : kernel_in_bounds(i_nh, t)}

\* mutant: a sub-block sees the state gradient with the contributions of the
\* sub-blocks before it already added
RECURSIVE kernel_sub_blocks_eager(_, _, _, _)
kernel_sub_blocks_eager(i_nh, it, i_c, acc) ==
    IF i_c < 0 THEN acc
    ELSE
      LET R == kernel_sub_block_rows(i_nh, it, i_c)
          b_dv2 == [t \in R |-> DAdd(kernel_row(i_nh, t).dv,
                                      DMul(kernel_row(i_nh, t).bg,
                                           DAdd(b_dh[i_nh], acc.tmp)))]
          add == [t \in R |-> DAdd(DMul(kernel_row(i_nh, t).qg, kernel_row(i_nh, t).do),
                                    DMul(kernel_row(i_nh, t).w, b_dv2[t]))]
      IN  kernel_sub_blocks_eager(i_nh, it, i_c - 1,
             [tmp |-> DAdd(acc.tmp, DSumSet(R, add)),
              dv2 |-> [r \in DOMAIN acc.dv2 |->
                         IF r - kernel_bos(i_nh) \in R
                         THEN b_dv2[r - kernel_bos(i_nh)] ELSE acc.dv2[r]]])

\* the sub-block loop of chunk it, from sub-block i_c down to 0: acc.tmp is
\* b_dh_tmp and acc.dv2 the tensor dv2
RECURSIVE kernel_sub_blocks(_, _, _, _)
kernel_sub_blocks(i_nh, it, i_c, acc) ==
    IF i_c < 0 THEN acc
    ELSE
      LET R == kernel_sub_block_rows(i_nh, it, i_c)
          \* b_dv2 = b_dv + tl.dot(b_bg, b_dh)
          b_dv2 == [t \in R |-> DAdd(kernel_row(i_nh, t).dv,
                                      DMul(kernel_row(i_nh, t).bg, b_dh[i_nh]))]
          \* b_dh_tmp += tl.dot(b_qg, b_do) + tl.dot(b_w, b_dv2)
          add == [t \in R |-> DAdd(DMul(kernel_row(i_nh, t).qg, kernel_row(i_nh, t).do),
                                    DMul(kernel_row(i_nh, t).w, b_dv2[t]))]
      IN  kernel_sub_blocks(i_nh, it, i_c - 1,
             [tmp |-> DAdd(acc.tmp, DSumSet(R, add)),
              dv2 |-> [r \in DOMAIN acc.dv2 |->
                         IF r - kernel_bos(i_nh) \in R
                         THEN b_dv2[r - kernel_bos(i_nh)] ELSE acc.dv2[r]]])

\* mutant: the end of the chunk is not clipped to the sequence
kernel_last_idx_unclipped(i_nh, it) == (it + 1) * loc.BT - 1

\* last_idx = min((i_t + 1) * BT, T) - 1
kernel_last_idx(i_nh, it) == Min((it + 1) * loc.BT, kernel_T(i_nh)) - 1

\* bg_last = tl.load(gk + ((bos + last_idx) * H + i_h) * K + ..), not bounds-checked
kernel_bg_last(i_nh, it) ==
    kernel_row(i_nh, kernel_last_idx(i_nh, it)).gk

\* one iteration of the chunk loop of one program instance
chunk_dplr_bwd_kernel_dhu(i_nh) ==
    /\ dpc = "chunk_dplr_bwd_kernel_dhu"
    /\ i_nh \in DOMAIN k_pc
    /\ k_pc[i_nh] = "loop"
    /\ loop_i_t[i_nh] >= 0
    /\ LET it   == loop_i_t[i_nh]
           slot == kernel_dh_slot(i_nh, it)
           acc  == kernel_sub_blocks(i_nh, it, cdiv(loc.BT, loc.BC) - 1,
                                     [tmp |-> DZero, dv2 |-> Val(dv2)])
       IN  /\ dh' = Some([s \in DOMAIN Val(dh) |->
                            IF s = slot THEN b_dh[i_nh] ELSE Val(dh)[s]])
           /\ dv2' = Some(acc.dv2)
           /\ b_dh' = [b_dh EXCEPT ![i_nh] =
                         DAdd(DMul(b_dh[i_nh], exp(kernel_bg_last(i_nh, it))), acc.tmp)]
           /\ visited' = [visited EXCEPT ![i_nh] =
                            Append(@, <<it, kernel_last_idx(i_nh, it) + 1 - it * loc.BT, slot>>)]
           /\ loop_i_t' = [loop_i_t EXCEPT ![i_nh] = it - 1]
    /\ UNCHANGED <<dpc, call, err, loc, dh0, k_pc, flat, cur, glaVars, otherVars>>

\* the end of a program instance: dh0 is stored with USE_INITIAL_STATE
chunk_dplr_bwd_kernel_dhu_store(i_nh) ==
    /\ dpc = "chunk_dplr_bwd_kernel_dhu"
    /\ i_nh \in DOMAIN k_pc
    /\ k_pc[i_nh] = "loop"
    /\ loop_i_t[i_nh] < 0
    /\ dh0' = IF USE_INITIAL_STATE
              THEN Some([Val(dh0) EXCEPT ![i_nh] = b_dh[i_nh]])
              ELSE dh0
    /\ k_pc' = [k_pc EXCEPT ![i_nh] = "done"]
    /\ UNCHANGED <<dpc, call, err, loc, dh, dv2, b_dh, loop_i_t, visited, flat, cur,
                   glaVars, otherVars>>

\* chunk_dplr_bwd_dhu: the allocation of dh, dh0 and dv2 and the launch
chunk_dplr_bwd_dhu_launch ==
    /\ dpc = "allocate"
    /\ dh' = Some([s \in 0..(call.B * loc.NT * call.H - 1) |-> Uninit])
    /\ dh0' = IF call.h0 THEN Some([n \in 0..(loc.N * call.H - 1) |-> Uninit]) ELSE None
    /\ dv2' = Some([r \in 0..(call.B * call.T - 1) |-> DZero])
    /\ k_pc' = [n \in 0..(loc.N * call.H - 1) |-> "loop"]
    /\ b_dh' = [n \in 0..(loc.N * call.H - 1) |-> kernel_b_dh0(n)]
    /\ loop_i_t' = [n \in 0..(loc.N * call.H - 1) |-> kernel_NT(n) - 1]
    /\ visited' = [n \in 0..(loc.N * call.H - 1) |-> <<>>]
    /\ dpc' = "chunk_dplr_bwd_kernel_dhu"
    /\ UNCHANGED <<call, err, loc, flat, cur, glaVars, otherVars>>

\* chunk_dplr_bwd_dhu: return dh, dh0, dv2
chunk_dplr_bwd_dhu_return ==
    /\ dpc = "chunk_dplr_bwd_kernel_dhu"
    /\ \A n \in DOMAIN k_pc : k_pc[n] = "done"
    /\ dpc' = "done"
    /\ UNCHANGED <<call, err, loc, dh, dh0, dv2, k_pc, b_dh, loop_i_t, visited, flat,
                   cur, glaVars, otherVars>>

(***************************************************************************)
(* The variable-length equivalence as a run: the call over the flattened   *)
(* batch with cu_seqlens, then one further call of chunk_dplr_bwd_dhu per  *)
(* sequence, on the tensors sliced to that sequence.  No caller of         *)
(* chunk_dplr_bwd_dhu is part of the sources; the calls are independent,   *)
(* so their order has no effect on what they return.  A slice is handed    *)
(* the final-state gradient of its sequence and h0 whenever the flattened  *)
(* call has them, so that dh0 can be compared; the calls without either    *)
(* are the runs with no initial state.                                     *)
(***************************************************************************)
\* the flattened call and its results
Flattened ==
    IF IsNone(flat)
    THEN [call |-> call, loc |-> loc, dh |-> dh, dh0 |-> dh0, dv2 |-> dv2]
    ELSE Val(flat)

\* the call on x[:, bos:eos] for sequence n of the flattened call c
SlicedCall(c, n) ==
    LET cu  == Val(c.cu_seqlens)
        bos == cu[n + 1]
        eos == cu[n + 2]
    IN  NewCall(None, 1, eos - bos, c.K, c.chunk_size, c.tier,
                [t \in {r - bos : r \in {r \in DOMAIN c.rows : bos <= r /\ r < eos}} |->
                    c.rows[bos + t]],
                IF IsNone(c.dht) THEN None ELSE Some([m \in {0} |-> Val(c.dht)[n]]),
                c.h0)

\* a further call of chunk_dplr_bwd_dhu, on the next sequence alone
call_on_slice ==
    /\ dpc = "done"
    /\ ~IsNone(Flattened.call.cu_seqlens)
    /\ cur + 1 < Len(Val(Flattened.call.cu_seqlens)) - 1
    /\ flat' = Some(Flattened)
    /\ cur' = cur + 1
    /\ call' = SlicedCall(Flattened.call, cur + 1)
    /\ dpc' = "chunk_dplr_bwd_dhu" /\ err' = "none" /\ loc' = <<>>
    /\ dh' = None /\ dh0' = None /\ dv2' = None
    /\ k_pc' = <<>> /\ b_dh' = <<>> /\ loop_i_t' = <<>> /\ visited' = <<>>
    /\ UNCHANGED <<glaVars, otherVars>>

\* one call of chunk_dplr_bwd_dhu, from the arguments to the return
NextChunks ==
    \/ chunk_dplr_bwd_dhu
    \/ chunk_dplr_bwd_dhu_prepare
    \/ chunk_dplr_bwd_dhu_launch
    \/ \E i_nh \in 0..(MaxSeqs - 1) : chunk_dplr_bwd_kernel_dhu(i_nh)
    \/ \E i_nh \in 0..(MaxSeqs - 1) : chunk_dplr_bwd_kernel_dhu_store(i_nh)
    \/ chunk_dplr_bwd_dhu_return

\* calls of chunk_dplr_bwd_dhu, one after the other
NextDHU ==
    \/ NextChunks
    \/ call_on_slice

SpecDHU == InitDHU /\ [][NextDHU]_vars

(***************************************************************************)
(* Claims about chunk_dplr_bwd_dhu.                                        *)
(***************************************************************************)
\* the length of sequence n of the call, from its arguments
CallSeqLen(n) == IF IS_VARLEN THEN SeqLen(Cu, n) ELSE call.T

\* the sequences of the call
CallSeqs == 0..((IF IS_VARLEN THEN Len(Cu) - 1 ELSE call.B) - 1)

\* the number of chunks of sequence n
CallChunks(n) == cdiv(CallSeqLen(n), loc.BT)

\* the chunks a finished program instance has visited, as a set
VisitedOf(n) == {visited[n][j] : j \in 1..Len(visited[n])}

\* C4: after the call on sequence n alone, its dh, dv2 and dh0 equal the
\* chunks, the rows and the dh0 entry of sequence n in the results of the
\* call over the flattened batch with cu_seqlens
C4_VarlenEqualsSliced ==
    (dpc = "done" /\ cur >= 0) =>
        LET F   == Val(flat)
            cu  == Val(F.call.cu_seqlens)
            bos == cu[cur + 1]
            boh == Val(F.loc.chunk_offsets)[cur]
            nt  == cdiv(SeqLen(cu, cur), F.loc.BT)
        IN  /\ DOMAIN Val(dh) = 0..(nt - 1)
            /\ \A i \in 0..(nt - 1) : Val(dh)[i] = Val(F.dh)[boh + i]
            /\ DOMAIN Val(dv2) = 0..(SeqLen(cu, cur) - 1)
            /\ \A t \in 0..(SeqLen(cu, cur) - 1) : Val(dv2)[t] = Val(F.dv2)[bos + t]
            /\ IsNone(dh0) = IsNone(F.dh0)
            /\ ~IsNone(dh0) => Val(dh0)[0] = Val(F.dh0)[cur]

\* the second of two sequences has been run alone, after a first sequence
\* of several chunks, with a final-state gradient, data in both sequences
\* and a decay in the second
C4_Witness ==
    /\ dpc = "done" /\ cur = 1
    /\ Len(Val(Val(flat).call.cu_seqlens)) = 3
    /\ Val(Val(flat).call.cu_seqlens)[2] > Val(flat).loc.BT
    /\ ~IsNone(call.dht) /\ ~IsNone(dh0)
    /\ \E r \in DOMAIN Val(flat).call.rows : r < Val(Val(flat).call.cu_seqlens)[2]
    /\ \E r \in DOMAIN call.rows : call.rows[r].gk # 0
    /\ \E t \in DOMAIN Val(dv2) : Val(dv2)[t] # DZero

\* C6: a finished program instance of a sequence of length T_b >= 1 has
\* visited exactly ceil(T_b / BT) chunks, each once; every valid length is
\* in 1 .. BT, only the last chunk may be shorter than BT, its valid length
\* is T_b mod BT (BT if that is zero), and the valid lengths sum to T_b
C6_ChunksPartitionSequence ==
    \A n \in DOMAIN k_pc :
        (dpc \in {"chunk_dplr_bwd_kernel_dhu", "done"} /\ k_pc[n] = "done") =>
            LET T_b == CallSeqLen(n)
                NT_b == cdiv(T_b, loc.BT)
                V == VisitedOf(n)
            IN  /\ T_b >= 1
                /\ Len(visited[n]) = NT_b
                /\ {v[1] : v \in V} = 0..(NT_b - 1)
                /\ \A v \in V :
                     /\ v[2] = Min((v[1] + 1) * loc.BT, T_b) - v[1] * loc.BT
                     /\ v[2] \in 1..loc.BT
                     /\ v[1] < NT_b - 1 => v[2] = loc.BT
                     /\ v[1] = NT_b - 1 =>
                          v[2] = (IF T_b % loc.BT = 0 THEN loc.BT ELSE T_b % loc.BT)
                /\ ISumSet(1..NT_b, [j \in 1..NT_b |-> visited[n][j][2]]) = T_b

\* a sequence of more than one chunk with a shorter last chunk was scanned
C6_Witness ==
    /\ dpc = "done"
    /\ \E n \in DOMAIN k_pc :
         /\ Len(visited[n]) >= 2
         /\ \E v \in VisitedOf(n) : v[2] < loc.BT

\* C7: the chunk offset of sequence n is n * NT in the fixed-length case
\* and the number of chunks of all earlier sequences in the variable-length
\* case; the slots boh + i_t written over all sequences and chunks are
\* pairwise distinct and are exactly the slots 0 .. total chunks - 1 of the
\* allocated dh
C7_SlotsContiguous ==
    dpc = "done" =>
        LET total == ISumSet(CallSeqs, [n \in CallSeqs |-> CallChunks(n)])
            slots == UNION { {v[3] : v \in VisitedOf(n)} : n \in CallSeqs }
        IN  /\ \A n \in CallSeqs :
                 kernel_boh(n) = IF IS_VARLEN
                                 THEN ISumSet(0..(n - 1), [m \in 0..(n - 1) |-> CallChunks(m)])
                                 ELSE n * CallChunks(n)
            /\ \A n \in CallSeqs : \A v \in VisitedOf(n) : v[3] = kernel_boh(n) + v[1]
            /\ \A n, m \in CallSeqs : \A v \in VisitedOf(n), u \in VisitedOf(m) :
                 v[3] = u[3] => (n = m /\ v[1] = u[1])
            /\ slots = 0..(total - 1)
            /\ DOMAIN Val(dh) = 0..(total - 1)
            /\ \A sl \in DOMAIN Val(dh) : Val(dh)[sl] # Uninit

\* a variable-length call of two sequences with different numbers of chunks
C7_Witness ==
    /\ dpc = "done" /\ IS_VARLEN /\ Len(Cu) = 3
    /\ CallChunks(0) # CallChunks(1)
    /\ CallChunks(0) >= 2

\* C8: a call whose cu_seqlens has two equal consecutive boundaries or is
\* not monotonic raises InvalidLengthError at the chunk indexer and never
\* allocates, launches or returns
C8_InvalidLengthsRaise ==
    (IS_VARLEN /\ ~ValidLengths(Cu)) =>
        /\ dpc \in {"chunk_dplr_bwd_dhu", "prepare_chunk_indices", "raised"}
        /\ dpc = "raised" => err = "InvalidLengthError"
        /\ dh = None /\ dh0 = None /\ dv2 = None /\ k_pc = <<>>

\* a call with a zero-length sequence between two others has failed
C8_Witness ==
    /\ IS_VARLEN /\ dpc = "raised" /\ err = "InvalidLengthError"
    /\ \E n \in 1..(Len(Cu) - 1) : Cu[n] = Cu[n + 1]

\* C9: a call with K > 256 raises at the width assertion, with no buffer
\* allocated and no program instance started; a call with K in 1 .. 256
\* passes the assertion
C9_WidthCheckedFirst ==
    /\ (call.K > MaxBK /\ dpc # "chunk_dplr_bwd_dhu") =>
          /\ dpc = "raised" /\ err = "AssertionError"
          /\ dh = None /\ dh0 = None /\ dv2 = None
          /\ k_pc = <<>> /\ visited = <<>>
    /\ (call.K \in 1..MaxBK) => err # "AssertionError"
    /\ (call.K \in 1..MaxBK /\ dpc = "raised") => (IS_VARLEN /\ ~ValidLengths(Cu))

\* the narrowest unsupported width has been rejected
C9_Witness ==
    call.K = MaxBK + 1 /\ dpc = "raised" /\ err = "AssertionError"

(***************************************************************************)
(* The state gradient of chunk_dplr_bwd_dhu, row by row: a reference that  *)
(* knows chunks but no sub-blocks and no program order.                    *)
(***************************************************************************)
\* row t of sequence n of the call
RefRow(n, t) ==
    LET r == (IF IS_VARLEN THEN Cu[n + 1] ELSE n * call.T) + t
    IN  IF r \in DOMAIN call.rows THEN call.rows[r] ELSE NoData

\* the rows of chunk i of sequence n
RefChunkRows(n, i) ==
    {t \in (i * loc.BT)..((i + 1) * loc.BT - 1) : t < CallSeqLen(n)}

\* the state gradient of sequence n before chunk i contributes: dht (or
\* zero) for i = NT, and for smaller i the gradient before chunk i + 1,
\* decayed by the gate of the last row of chunk i, plus the sum over the rows
\* of chunk i of qg * do + w * (dv + bg * gradient before chunk i)
RECURSIVE RefDS(_, _)
RefDS(n, i) ==
    IF i >= CallChunks(n)
    THEN (IF IsNone(call.dht) THEN DZero ELSE Val(call.dht)[n])
    ELSE LET D == RefDS(n, i + 1)
             R == RefChunkRows(n, i)
             last == CHOOSE t \in R : \A s \in R : s <= t
             add == [t \in R |->
                       DAdd(DMul(RefRow(n, t).qg, RefRow(n, t).do),
                            DMul(RefRow(n, t).w,
                                 DAdd(RefRow(n, t).dv, DMul(RefRow(n, t).bg, D))))]
         IN  DAdd(DMul(D, exp(RefRow(n, last).gk)), DSumSet(R, add))

\* dv2 of row t of sequence n
RefDv2(n, t) ==
    DAdd(RefRow(n, t).dv, DMul(RefRow(n, t).bg, RefDS(n, (t \div loc.BT) + 1)))

\* C14: the dh slot of chunk i of every sequence holds the state gradient
\* before chunk i contributes: dht (or zero) in the slot of the last chunk,
\* the gradient after chunks i+1 .. NT-1 in the slot of chunk i; dh0 exists
\* exactly when h0 was given and holds the gradient after chunk 0
C14_SlotsHoldGradientBeforeChunk ==
    dpc = "done" =>
        /\ \A n \in CallSeqs : \A i \in 0..(CallChunks(n) - 1) :
             Val(dh)[kernel_dh_slot(n, i)] = RefDS(n, i + 1)
        /\ \A n \in CallSeqs :
             Val(dh)[kernel_dh_slot(n, CallChunks(n) - 1)] =
                 (IF IsNone(call.dht) THEN DZero ELSE Val(call.dht)[n])
        /\ IsNone(dh0) = ~call.h0
        /\ ~IsNone(dh0) => \A n \in CallSeqs : Val(dh0)[n] = RefDS(n, 0)

\* a call with dht and h0 over a sequence of several chunks whose earlier
\* slots differ from dht and whose dh0 differs from the slot of chunk 0
C14_Witness ==
    /\ dpc = "done" /\ ~IsNone(call.dht) /\ ~IsNone(dh0)
    /\ \E n \in CallSeqs :
         /\ CallChunks(n) >= 2
         /\ Val(dh)[kernel_dh_slot(n, 0)] # Val(call.dht)[n]
         /\ Val(dh0)[n] # Val(dh)[kernel_dh_slot(n, 0)]
         /\ \E t \in RefChunkRows(n, CallChunks(n) - 1) : RefRow(n, t).gk # 0

\* C16: for a fixed chunk length BT the results dh, dh0 and dv2 are those
\* of the whole-chunk computation, whatever sub-block width BC dividing BT
\* the hardware tier selects
C16_TilingHasNoEffect ==
    (dpc = "done" /\ loc.BT % loc.BC = 0) =>
        /\ \A n \in CallSeqs : \A t \in 0..(CallSeqLen(n) - 1) :
             Val(dv2)[kernel_bos(n) + t] = RefDv2(n, t)
        /\ \A n \in CallSeqs : \A i \in 0..(CallChunks(n) - 1) :
             Val(dh)[kernel_dh_slot(n, i)] = RefDS(n, i + 1)
        /\ ~IsNone(dh0) => \A n \in CallSeqs : Val(dh0)[n] = RefDS(n, 0)

\* a chunk of 64 rows tiled into four sub-blocks, with rows of data in
\* different sub-blocks that feed the state gradient into dv2
C16_Witness ==
    /\ dpc = "done" /\ loc.BT = 4 * loc.BC /\ ~IsNone(call.dht)
    /\ \E r1, r2 \in DOMAIN call.rows :
         /\ r1 \div loc.BC # r2 \div loc.BC
         /\ call.rows[r1].w # DZero /\ call.rows[r2].w # DZero
         /\ Val(dv2)[r1] # call.rows[r1].dv

(***************************************************************************)
(* LinearAttention: construction and forward dispatch.                     *)
(***************************************************************************)
\* the arguments of the model: every accepted identifier and some others
ModeArgs == {"chunk", "fused_chunk", "fused_recurrent", "recurrent", "parallel", ""}
FeatureMapArgs ==
    {"hedgehog", "t2r", "elementwise_product", "dpfp", "elu", "relu", "identity",
     "softmax", ""}
OutputNormArgs == {"rmsnorm", "identity", "layernorm", ""}

\* expand_k = expand_v = 1; num_heads 3 does not divide hidden_size 8
HiddenSizeArgs == {8}
HeadArgs == {2, 3}

InitLA ==
    /\ \E m \in ModeArgs, fm \in FeatureMapArgs, on \in OutputNormArgs,
          hs \in HiddenSizeArgs, nh \in HeadArgs, tie \in BOOLEAN :
         largs = [mode |-> m, feature_map |-> fm, output_norm |-> on,
                  hidden_size |-> hs, num_heads |-> nh,
                  tie_feature_map_qk |-> tie]
    /\ lpc = "new" /\ lself = None /\ lerr = "none" /\ lcalled = "none"
    /\ GlaIdle /\ DhuIdle /\ BwdIdle /\ GridIdle

\* mutant: the mode is not checked
init_mode_ok_any(mode) == TRUE

\* assert mode in ['chunk', 'fused_chunk', 'fused_recurrent']
init_mode_ok(mode) == mode \in {"chunk", "fused_chunk", "fused_recurrent"}

\* the feature map class __init__ selects, "NotImplementedError" in the else branch
init_feature_map(fm) ==
    IF fm = "hedgehog" THEN "HedgehogFeatureMap"
    ELSE IF fm = "t2r" THEN "T2RFeatureMap"
    ELSE IF fm = "elementwise_product" THEN "HadamardFeatureMap"
    ELSE IF fm = "dpfp" THEN "DPFPFeatureMap"
    ELSE IF fm = "elu" THEN "elu"
    ELSE IF fm = "relu" THEN "ReLU"
    ELSE IF fm = "identity" THEN "Identity"
    ELSE "NotImplementedError"

\* the output norm __init__ selects, "NotImplementedError" in the else branch
init_output_norm(on) ==
    IF on = "rmsnorm" THEN "RMSNorm"
    ELSE IF on = "identity" THEN "Identity"
    ELSE "NotImplementedError"

\* the exception __init__ raises, in the order of its checks, or "none"
init_error(a) ==
    IF ~init_mode_ok(a.mode) THEN "AssertionError"
    ELSE IF a.hidden_size % a.num_heads # 0 THEN "AssertionError"
    ELSE IF init_feature_map(a.feature_map) = "NotImplementedError"
         THEN "NotImplementedError"
    ELSE IF init_output_norm(a.output_norm) = "NotImplementedError"
         THEN "NotImplementedError"
    ELSE "none"

\* LinearAttention.__init__
LinearAttention_init ==
    /\ lpc = "new"
    /\ IF init_error(largs) # "none"
       THEN /\ lpc' = "raised"
            /\ lerr' = init_error(largs)
            /\ lself' = lself
       ELSE /\ lpc' = "constructed"
            /\ lerr' = lerr
            /\ lself' = Some([mode |-> largs.mode,
                              feature_map_q |-> init_feature_map(largs.feature_map),
                              feature_map_k |-> init_feature_map(largs.feature_map),
                              norm |-> init_output_norm(largs.output_norm),
                              head_k_dim |-> largs.hidden_size \div largs.num_heads])
    /\ UNCHANGED <<largs, lcalled, glaVars, dhuVars, bwdVars, gridVars>>

\* the function forward calls for the mode, "NotImplementedError" in the else branch
forward_dispatch(mode) ==
    IF mode = "chunk" THEN "chunk_linear_attn"
    ELSE IF mode = "fused_chunk" THEN "fused_chunk_linear_attn"
    ELSE IF mode = "fused_recurrent" THEN "fused_recurrent_linear_attn"
    ELSE "NotImplementedError"

\* LinearAttention.forward
LinearAttention_forward ==
    /\ lpc \in {"constructed", "returned"}
    /\ IF forward_dispatch(Val(lself).mode) = "NotImplementedError"
       THEN lpc' = "forward_raised" /\ lerr' = "NotImplementedError" /\ lcalled' = lcalled
       ELSE lpc' = "returned" /\ lerr' = lerr
            /\ lcalled' = forward_dispatch(Val(lself).mode)
    /\ UNCHANGED <<largs, lself, glaVars, dhuVars, bwdVars, gridVars>>

NextLA == LinearAttention_init \/ LinearAttention_forward

SpecLA == InitLA /\ [][NextLA]_vars

\* C13: construction fails for every mode outside chunk, fused_chunk and
\* fused_recurrent, every unknown feature_map and every unknown output_norm;
\* a forward call of a constructed layer dispatches to the one function its
\* mode names and never raises
C13_SelectorsCheckedAtConstruction ==
    /\ (lpc # "new" /\ (\/ largs.mode \notin {"chunk", "fused_chunk", "fused_recurrent"}
                        \/ largs.feature_map \notin {"hedgehog", "t2r", "elementwise_product",
                                                     "dpfp", "elu", "relu", "identity"}
                        \/ largs.output_norm \notin {"rmsnorm", "identity"}))
          => (lpc = "raised" /\ lself = None /\ lcalled = "none"
              /\ lerr \in {"AssertionError", "NotImplementedError"})
    /\ lpc # "forward_raised"
    /\ lpc = "returned" =>
          /\ largs.mode = "chunk" => lcalled = "chunk_linear_attn"
          /\ largs.mode = "fused_chunk" => lcalled = "fused_chunk_linear_attn"
          /\ largs.mode = "fused_recurrent" => lcalled = "fused_recurrent_linear_attn"
          /\ lcalled # "none"

\* a layer constructed in the last of the three modes has run forward
C13_Witness ==
    lpc = "returned" /\ largs.mode = "fused_recurrent" /\ largs.feature_map = "dpfp"
    /\ lcalled = "fused_recurrent_linear_attn"

(***************************************************************************)
(* Claims about the intra-chunk matrix A.                                  *)
(***************************************************************************)
\* the chunks of A that fwd_inner_chunk has written
WrittenChunks ==
    IF pc = "fwd_inner_chunk"
    THEN {<<n, u>> : n \in 0..(cdiv(T, BT) - 1), u \in Units} \ pend
    ELSE IF pc \in {"fused_chunk_gla_return", "done"}
    THEN {<<n, u>> : n \in 0..(cdiv(T, BT) - 1), u \in Units}
    ELSE {}

\* C17: in every written chunk A[i, j] = 0 for j > i, and for j <= i
\* A[i, j] = scale * sum over c of q[i,c] * k[j,c] * exp(cum[i,c] - cum[j,c]),
\* cum[i,c] - cum[j,c] being the sum of the gates of the positions j+1 .. i
C17_IntraChunkMatrixIsCausal ==
    \A w \in WrittenChunks :
        LET n == w[1]
            u == w[2]
        IN  \A i, j \in 0..(BT - 1) :
              A[u][n][i][j] =
                IF j > i THEN DZero
                ELSE DMul(scale,
                       DSumSeq([c \in Chan |->
                          DMul(DMul(XRow(u, n * BT + i).q[c], XRow(u, n * BT + j).k[c]),
                               exp(GateSum(u, n * BT + j, n * BT + i, c)))]))

\* a written chunk with a decayed entry below the diagonal and a key above
\* the diagonal of a row with a query
C17_Witness ==
    \E w \in WrittenChunks :
        LET n == w[1]
            u == w[2]
        IN  /\ n >= 1
            /\ A[u][n][BT - 1][0] # DZero
            /\ A[u][n][BT - 1][0][2] > scale[2]
            /\ A[u][n][0][0] # DZero
            /\ XRow(u, n * BT + BT - 1).k # VZero

(***************************************************************************)
(* FusedChunkGLAFunction.backward, host code and kernels, after the        *)
(* forward pass on the same tensors.  B = H = 1, V = 1, NK = NV = 1.       *)
(***************************************************************************)
\* the gates of the rows of a call with a backward pass
BwdGVals == {IZero, [c \in Chan |-> IF c = 1 THEN 0 - 1 ELSE 0]}
BwdRowVals == [q : QVals, k : KVals, v : {DInt(1)}, g : BwdGVals]

\* the positions of the rows that may carry data
BwdPositions == {<<0, BT * c + d>> : c \in 0..(MaxNT - 1), d \in DataOffsets}

\* o, final_state = FusedChunkGLAFunction.apply(q, k, v, g, scale,
\* initial_state, True) on MaxNT chunks, followed by the backward pass with
\* the gradients do and dht
InitBWD ==
    /\ entry = "apply" /\ head_first = FALSE /\ pc = "forward"
    /\ shape = <<1, BT * MaxNT>>
    /\ rows \in UNION { [S -> BwdRowVals] :
                          S \in {P \in SUBSET BwdPositions : Cardinality(P) <= MaxRows} }
    /\ initial_state \in {None, Some([u \in {0} |-> VOnes])}
    /\ x = rows /\ H = shape[1] /\ T = shape[2] /\ seq_len = 0
    /\ InitCommon
    /\ bpc = "backward"
    /\ do = [p \in BwdPositions |-> DInt(1)]
    /\ dht \in {None, Some([u \in {0} |-> VOnes])}
    /\ bk_phase = <<>> /\ bk_i = <<>> /\ bk_h = <<>> /\ bk_dh = <<>>
    /\ dq = <<>> /\ dk = <<>> /\ dv = <<>> /\ dA2 = <<>> /\ dv2_intra = <<>>
    /\ dq2 = <<>> /\ dk2 = <<>> /\ dg = <<>> /\ bpend = {} /\ grads = None
    /\ DhuIdle /\ LaIdle /\ GridIdle

\* row t of do for unit u
DoRow(u, t) == IF <<u, t>> \in DOMAIN do THEN do[<<u, t>>] ELSE DZero

\* the value row t of unit u as a block-pointer load sees it
VRow(u, t) == IF 0 <= t /\ t < T THEN XRow(u, t).v ELSE DZero

\* backward: g = chunk_local_cumsum(g_org, chunk_size=BT)
backward_g == [u \in Units |-> chunk_local_cumsum(u, T, BT)]

\* the kernel's b_h before its first loop: zero, plus h0 with USE_INITIAL_STATE
bwd_kernel_b_h0(i_bh) ==
    IF IsNone(initial_state) THEN VZero ELSE Val(initial_state)[i_bh]

\* backward up to the launch of prepare_qg_kg: the recomputation of g, and
\* q_g, k_g = torch.empty_like
backward ==
    /\ pc = "done" /\ bpc = "backward"
    /\ g' = backward_g
    /\ q_g' = [u \in Units |-> [t \in Times |-> [c \in Chan |-> Uninit]]]
    /\ k_g' = [u \in Units |-> [t \in Times |-> [c \in Chan |-> Uninit]]]
    /\ pend' = {<<i_c, i_bh>> : i_c \in 0..(cdiv(T, BT) - 1), i_bh \in Units}
    /\ bpc' = "prepare_qg_kg"
    /\ UNCHANGED <<pc, entry, head_first, shape, rows, scale, initial_state, x,
                   seq_len, H, T, b_h, i_loop, o, final_state, A, ret_o,
                   do, dht, bk_phase, bk_i, bk_h, bk_dh, dq, dk, dv,
                   dA2, dv2_intra, dq2, dk2, dg, bpend, grads,
                   dhuVars, laVars, gridVars>>

\* backward after the launch of prepare_qg_kg has run: dq, dk, dv =
\* q.new_empty and the launch of fused_chunk_gla_bwd_kernel; dht is not
\* handed to the kernel
backward_launch_bwd ==
    /\ bpc = "prepare_qg_kg"
    /\ pend = {}
    /\ dq' = [u \in Units |-> [t \in Times |-> [c \in Chan |-> Uninit]]]
    /\ dk' = [u \in Units |-> [t \in Times |-> [c \in Chan |-> Uninit]]]
    /\ dv' = [u \in Units |-> [t \in Times |-> Uninit]]
    /\ bk_phase' = [u \in Units |-> "dq"]
    /\ bk_i' = [u \in Units |-> 0]
    /\ bk_h' = [u \in Units |-> bwd_kernel_b_h0(u)]
    /\ bk_dh' = [u \in Units |-> VZero]
    /\ bpc' = "fused_chunk_gla_bwd_kernel"
    /\ UNCHANGED <<glaVars, do, dht, dA2, dv2_intra, dq2, dk2, dg, bpend, grads,
                   dhuVars, laVars, gridVars>>

\* fused_chunk_gla_bwd_kernel, first loop: b_dq = tl.dot(b_do, b_h) * scale,
\* row t
bwd_kernel_b_dq(i_bh, t, h) ==
    [c \in Chan |-> DMul(DMul(DoRow(i_bh, t), h[c]), scale)]

\* first loop: the row (i+1)*BT - 1 of g that p_gn points to in iteration i
bwd_kernel_gn_row(i) == (i + 1) * BT - 1

\* first loop: b_h = b_h * exp(b_gn)[None, :] + tl.dot(b_v, b_k), with b_gn
\* the cumulative gate of row (i+1)*BT - 1
bwd_kernel_b_h(i_bh, i, h) ==
    [c \in Chan |->
        LET vk == [r \in 0..(BT - 1) |->
                     DMul(VRow(i_bh, i * BT + r),
                          LoadRow(k_g[i_bh], i * BT + r, VZero)[c])]
        IN  DAdd(DMul(h[c], exp(g[i_bh][bwd_kernel_gn_row(i)][c])),
                 DSumRange(vk, 0, BT - 1))]

\* b_dh before the second loop: tl.zeros([BK, BV])
bwd_kernel_b_dh0(i_bh) == VZero

\* one iteration of the first loop of one program instance, and after the
\* last one the statements between the loops
fused_chunk_gla_bwd_kernel_dq(i_bh) ==
    /\ bpc = "fused_chunk_gla_bwd_kernel"
    /\ i_bh \in DOMAIN bk_phase
    /\ bk_phase[i_bh] = "dq"
    /\ LET i == bk_i[i_bh]
           last == i + 1 >= cdiv(T, BT)
       IN  /\ dq' = [dq EXCEPT ![i_bh] = [t \in Times |->
                       IF i * BT <= t /\ t < i * BT + BT
                       THEN bwd_kernel_b_dq(i_bh, t, bk_h[i_bh])
                       ELSE dq[i_bh][t]]]
           /\ bk_h' = [bk_h EXCEPT ![i_bh] = bwd_kernel_b_h(i_bh, i, bk_h[i_bh])]
           /\ bk_i' = [bk_i EXCEPT ![i_bh] = IF last THEN 1 ELSE i + 1]
           /\ bk_phase' = [bk_phase EXCEPT ![i_bh] = IF last THEN "dkv" ELSE "dq"]
           /\ bk_dh' = [bk_dh EXCEPT ![i_bh] =
                          IF last THEN bwd_kernel_b_dh0(i_bh) ELSE bk_dh[i_bh]]
    /\ UNCHANGED <<glaVars, bpc, do, dht, dk, dv, dA2, dv2_intra, dq2, dk2, dg,
                   bpend, grads, dhuVars, laVars, gridVars>>

\* mutant: the second loop walks the chunks in increasing time order
bwd_kernel_start_forward(i) == (i - 1) * BT

\* second loop: the first row T - i * BT of the block of iteration i
bwd_kernel_start(i) == T - i * BT

\* second loop: the row T - (i-1)*BT - 1 of g that p_gn points to in
\* iteration i
bwd_kernel_db_row(i) == T - (i - 1) * BT - 1

\* second loop: b_db, the cumulative gate of row T - (i-1)*BT - 1
bwd_kernel_b_db(i_bh, i) == g[i_bh][bwd_kernel_db_row(i)]

\* second loop: b_dk = tl.trans(tl.dot(b_dh, tl.trans(b_v))), row t
bwd_kernel_b_dk(i_bh, t, b_dh_) == [c \in Chan |-> DMul(b_dh_[c], VRow(i_bh, t))]

\* second loop: b_dv = tl.dot(b_k, b_dh), row t
bwd_kernel_b_dv(i_bh, t, b_dh_) == Dot(LoadRow(k_g[i_bh], t, VZero), b_dh_)

\* second loop: b_dh = b_dh * exp(b_db)[:, None] + tl.dot(b_q, b_do)
bwd_kernel_b_dh(i_bh, i, b_dh_) ==
    [c \in Chan |->
        LET qdo == [r \in 0..(BT - 1) |->
                      DMul(LoadRow(q_g[i_bh], bwd_kernel_start(i) + r, VZero)[c],
                           DoRow(i_bh, bwd_kernel_start(i) + r))]
        IN  DAdd(DMul(b_dh_[c], exp(bwd_kernel_b_db(i_bh, i)[c])),
                 DSumRange(qdo, 0, BT - 1))]

\* one iteration of the second loop of one program instance
fused_chunk_gla_bwd_kernel_dkv(i_bh) ==
    /\ bpc = "fused_chunk_gla_bwd_kernel"
    /\ i_bh \in DOMAIN bk_phase
    /\ bk_phase[i_bh] = "dkv"
    /\ LET i == bk_i[i_bh]
           inblock(t) == bwd_kernel_start(i) <= t /\ t < bwd_kernel_start(i) + BT
       IN  /\ dk' = [dk EXCEPT ![i_bh] = [t \in Times |->
                       IF inblock(t) THEN bwd_kernel_b_dk(i_bh, t, bk_dh[i_bh])
                       ELSE dk[i_bh][t]]]
           /\ dv' = [dv EXCEPT ![i_bh] = [t \in Times |->
                       IF inblock(t) THEN bwd_kernel_b_dv(i_bh, t, bk_dh[i_bh])
                       ELSE dv[i_bh][t]]]
           /\ bk_dh' = [bk_dh EXCEPT ![i_bh] = bwd_kernel_b_dh(i_bh, i, bk_dh[i_bh])]
           /\ bk_i' = [bk_i EXCEPT ![i_bh] = i + 1]
           /\ bk_phase' = [bk_phase EXCEPT ![i_bh] =
                             IF i + 1 > cdiv(T, BT) THEN "done" ELSE "dkv"]
    /\ UNCHANGED <<glaVars, bpc, do, dht, bk_h, dq, dA2, dv2_intra, dq2, dk2, dg,
                   bpend, grads, dhuVars, laVars, gridVars>>

\* the number of chunks of the intra-chunk part: NT = T // BT
backward_NT == T \div BT

\* backward: dA2 = (do2 @ v2.transpose(-2, -1)) * scale
backward_dA2(i_bh, n, i, j) ==
    DMul(DMul(DoRow(i_bh, n * BT + i), VRow(i_bh, n * BT + j)), scale)

\* backward: dv2 = A.transpose(-1, -2) @ do2
backward_dv2(i_bh, t) ==
    LET n == t \div BT
        j == t % BT
        ado == [i \in 0..(BT - 1) |-> DMul(A[i_bh][n][i][j], DoRow(i_bh, n * BT + i))]
    IN  DSumRange(ado, 0, BT - 1)

\* backward from dq.sum(0) to the launch of bwd_inner_chunk
backward_intra ==
    /\ bpc = "fused_chunk_gla_bwd_kernel"
    /\ \A u \in Units : bk_phase[u] = "done"
    /\ dA2' = [u \in Units |-> [n \in 0..(backward_NT - 1) |->
                 [i \in 0..(BT - 1) |-> [j \in 0..(BT - 1) |->
                     backward_dA2(u, n, i, j)]]]]
    /\ dv2_intra' = [u \in Units |-> [t \in Times |-> backward_dv2(u, t)]]
    /\ dq2' = [u \in Units |-> [t \in Times |-> [c \in Chan |-> Uninit]]]
    /\ dk2' = [u \in Units |-> [t \in Times |-> [c \in Chan |-> Uninit]]]
    /\ bpend' = {<<i_t, i_bh>> : i_t \in 0..(backward_NT - 1), i_bh \in Units}
    /\ bpc' = "bwd_inner_chunk"
    /\ UNCHANGED <<glaVars, do, dht, bk_phase, bk_i, bk_h, bk_dh, dq, dk, dv,
                   dg, grads, dhuVars, laVars, gridVars>>

\* bwd_inner_chunk: score = tl.where(o_i <= i, safe_exp(b_gq - b_g), 0) for
\* row i and column j of chunk i_t, channel c
bwd_inner_score(i_bh, i_t, i, j, c) ==
    IF j <= i
    THEN safe_exp(g[i_bh][i_t * BT + i][c] - LoadRow(g[i_bh], i_t * BT + j, IZero)[c])
    ELSE DZero

\* bwd_inner_chunk: b_dA = tl.where(o_i <= i, b_dA, 0)
bwd_inner_b_dA(i_bh, i_t, i, j) == IF j <= i THEN dA2[i_bh][i_t][i][j] ELSE DZero

\* bwd_inner_chunk: b_dq = tl.sum(b_dA[:, None] * score * b_k, axis=0), row i
bwd_inner_b_dq(i_bh, i_t, i) ==
    [c \in Chan |->
        DSumRange([j \in 0..(BT - 1) |->
                     DMul(DMul(bwd_inner_b_dA(i_bh, i_t, i, j),
                               bwd_inner_score(i_bh, i_t, i, j, c)),
                          XRow(i_bh, i_t * BT + j).k[c])], 0, BT - 1)]

\* bwd_inner_chunk: b_dk += b_dA[:, None] * score * b_q[None, :] over the rows
\* i of the chunk, column j
bwd_inner_b_dk(i_bh, i_t, j) ==
    [c \in Chan |->
        DSumRange([i \in 0..(BT - 1) |->
                     DMul(DMul(bwd_inner_b_dA(i_bh, i_t, i, j),
                               bwd_inner_score(i_bh, i_t, i, j, c)),
                          XRow(i_bh, i_t * BT + i).q[c])], 0, BT - 1)]

\* one program instance of bwd_inner_chunk: the rows of chunk i_t
bwd_inner_chunk(i_t, i_bh) ==
    /\ bpc = "bwd_inner_chunk"
    /\ <<i_t, i_bh>> \in bpend
    /\ LET inchunk(t) == i_t * BT <= t /\ t < i_t * BT + BT
       IN  /\ dq2' = [dq2 EXCEPT ![i_bh] = [t \in Times |->
                        IF inchunk(t) THEN bwd_inner_b_dq(i_bh, i_t, t - i_t * BT)
                        ELSE dq2[i_bh][t]]]
           /\ dk2' = [dk2 EXCEPT ![i_bh] = [t \in Times |->
                        IF inchunk(t) THEN bwd_inner_b_dk(i_bh, i_t, t - i_t * BT)
                        ELSE dk2[i_bh][t]]]
    /\ bpend' = bpend \ {<<i_t, i_bh>>}
    /\ UNCHANGED <<glaVars, bpc, do, dht, bk_phase, bk_i, bk_h, bk_dh, dq, dk, dv,
                   dA2, dv2_intra, dg, grads, dhuVars, laVars, gridVars>>

\* backward from the allocation of dg to the launch of bwd_decay_global_cumsum
backward_launch_cumsum ==
    /\ bpc = "bwd_inner_chunk"
    /\ bpend = {}
    /\ dg' = [u \in Units |-> [t \in Times |-> [c \in Chan |-> Uninit]]]
    /\ bpend' = {<<i_c, i_bh>> : i_c \in 0..(cdiv(T, BT) - 1), i_bh \in Units}
    /\ bpc' = "bwd_decay_global_cumsum"
    /\ UNCHANGED <<glaVars, do, dht, bk_phase, bk_i, bk_h, bk_dh, dq, dk, dv,
                   dA2, dv2_intra, dq2, dk2, grads, dhuVars, laVars, gridVars>>

\* bwd_decay_global_cumsum: b_dq = b_dq1 + b_dq2 * exp(b_g), row t
cumsum_b_dq(i_bh, t) ==
    [c \in Chan |-> DAdd(dq2[i_bh][t][c], DMul(dq[i_bh][t][c], exp(g[i_bh][t][c])))]

\* bwd_decay_global_cumsum: b_dk = b_dk1 + b_dk2 * safe_exp(last_g - b_g), with
\* last_g the gate of the last row of the chunk
cumsum_b_dk(i_bh, i_c, t) ==
    [c \in Chan |->
        DAdd(dk2[i_bh][t][c],
             DMul(dk[i_bh][t][c],
                  safe_exp(g[i_bh][i_c * BT + BT - 1][c] - g[i_bh][t][c])))]

\* mutant: the key term is added
cumsum_b_dg_plus(i_bh, i_c, t) ==
    [c \in Chan |->
        DAdd(DMul(cumsum_b_dq(i_bh, t)[c], XRow(i_bh, t).q[c]),
             DMul(cumsum_b_dk(i_bh, i_c, t)[c], XRow(i_bh, t).k[c]))]

\* bwd_decay_global_cumsum: b_dg = b_dq * b_q - b_dk * b_k
cumsum_b_dg(i_bh, i_c, t) ==
    [c \in Chan |->
        DAdd(DMul(cumsum_b_dq(i_bh, t)[c], XRow(i_bh, t).q[c]),
             DMul(DInt(0 - 1), DMul(cumsum_b_dk(i_bh, i_c, t)[c], XRow(i_bh, t).k[c])))]

\* bwd_decay_global_cumsum: cum_grad_dg after the rows BT-1 down to j of the
\* chunk
cumsum_cum_grad_dg(i_bh, i_c, j) ==
    [c \in Chan |->
        DSumRange([r \in 0..(BT - 1) |-> cumsum_b_dg(i_bh, i_c, i_c * BT + r)[c]],
                  j, BT - 1)]

\* one program instance of bwd_decay_global_cumsum: the rows of chunk i_c,
\* from the last one to the first
bwd_decay_global_cumsum(i_c, i_bh) ==
    /\ bpc = "bwd_decay_global_cumsum"
    /\ <<i_c, i_bh>> \in bpend
    /\ LET inchunk(t) == i_c * BT <= t /\ t < i_c * BT + BT
       IN  /\ dq' = [dq EXCEPT ![i_bh] = [t \in Times |->
                       IF inchunk(t) THEN cumsum_b_dq(i_bh, t) ELSE dq[i_bh][t]]]
           /\ dk' = [dk EXCEPT ![i_bh] = [t \in Times |->
                       IF inchunk(t) THEN cumsum_b_dk(i_bh, i_c, t) ELSE dk[i_bh][t]]]
           /\ dg' = [dg EXCEPT ![i_bh] = [t \in Times |->
                       IF inchunk(t) THEN cumsum_cum_grad_dg(i_bh, i_c, t - i_c * BT)
                       ELSE dg[i_bh][t]]]
    /\ bpend' = bpend \ {<<i_c, i_bh>>}
    /\ UNCHANGED <<glaVars, bpc, do, dht, bk_phase, bk_i, bk_h, bk_dh, dv,
                   dA2, dv2_intra, dq2, dk2, grads, dhuVars, laVars, gridVars>>

\* mutant: the chunk's own sum is part of what it receives
rev_cumsum_inclusive(xs, n) == DSumRange(xs, n, backward_NT - 1)

\* rev_cumsum_exclusive(x)[n] = cumsum_x[-1] - cumsum_x[n] along the chunks,
\* for one unit and one channel
rev_cumsum_exclusive(xs, n) ==
    DAdd(DSumRange(xs, 0, backward_NT - 1),
         DMul(DInt(0 - 1), DSumRange(xs, 0, n)))

\* backward: dg.add_(rev_cumsum_exclusive(dg[..., 0, :]).unsqueeze(-2))
backward_dg(i_bh, t) ==
    [c \in Chan |->
        DAdd(dg[i_bh][t][c],
             rev_cumsum_exclusive([n \in 0..(backward_NT - 1) |-> dg[i_bh][n * BT][c]],
                                  t \div BT))]

\* backward from the rearrange of dg to the return
backward_return ==
    /\ bpc = "bwd_decay_global_cumsum"
    /\ bpend = {}
    /\ grads' = Some([dq |-> dq,
                      dk |-> dk,
                      dv |-> [u \in Units |-> [t \in Times |->
                                 DAdd(dv[u][t], dv2_intra[u][t])]],
                      dg |-> [u \in Units |-> [t \in Times |-> backward_dg(u, t)]]])
    /\ bpc' = "done"
    /\ UNCHANGED <<glaVars, do, dht, bk_phase, bk_i, bk_h, bk_dh, dq, dk, dv,
                   dA2, dv2_intra, dq2, dk2, dg, bpend, dhuVars, laVars, gridVars>>

NextBWD ==
    \/ forward
    \/ \E i_c \in 0..(MaxNT - 1), i_bh \in 0..(MaxDim - 1) : prepare_qg_kg(i_c, i_bh)
    \/ forward_launch_fwd
    \/ \E i_bh \in 0..(MaxDim - 1) : fused_chunk_gla_fwd_kernel(i_bh)
    \/ \E i_bh \in 0..(MaxDim - 1) : fused_chunk_gla_fwd_kernel_store(i_bh)
    \/ forward_launch_inner
    \/ \E i_t \in 0..(MaxNT - 1), i_bh \in 0..(MaxDim - 1) : fwd_inner_chunk(i_t, i_bh)
    \/ forward_combine
    \/ backward
    \/ backward_launch_bwd
    \/ \E i_bh \in 0..(MaxDim - 1) : fused_chunk_gla_bwd_kernel_dq(i_bh)
    \/ \E i_bh \in 0..(MaxDim - 1) : fused_chunk_gla_bwd_kernel_dkv(i_bh)
    \/ backward_intra
    \/ \E i_t \in 0..(MaxNT - 1), i_bh \in 0..(MaxDim - 1) : bwd_inner_chunk(i_t, i_bh)
    \/ backward_launch_cumsum
    \/ \E i_c \in 0..(MaxNT - 1), i_bh \in 0..(MaxDim - 1) :
          bwd_decay_global_cumsum(i_c, i_bh)
    \/ backward_return

SpecBWD == InitBWD /\ [][NextBWD]_vars

\* the returned gradients are present
BwdDone == bpc = "done" /\ ~IsNone(grads)

(***************************************************************************)
(* The gradients backward returns.                                         *)
(***************************************************************************)
\* the final-state gradient handed to backward, zero when there is none
DhtOf(u) == IF IsNone(dht) THEN VZero ELSE Val(dht)[u]

\* C11: the state gradient the second loop of the backward kernel carries
\* across the chunks starts from dht when one is supplied and from zero
\* otherwise
C11_StateGradientStartsFromDht ==
    \A u \in DOMAIN bk_phase :
        (bk_phase[u] = "dkv" /\ bk_i[u] = 1) => bk_dh[u] = DhtOf(u)

\* dq[s] * q[s] - dk[s] * k[s] of the returned gradients, channel c
GateTerm(u, s, c) ==
    DAdd(DMul(Val(grads).dq[u][s][c], XRow(u, s).q[c]),
         DMul(DInt(0 - 1), DMul(Val(grads).dk[u][s][c], XRow(u, s).k[c])))

\* the sum of GateTerm over the data rows s with lo <= s <= hi
GateTermSum(u, lo, hi, c) ==
    LET S == {s \in DataTimes(u) : lo <= s /\ s <= hi}
    IN  DSumSet(S, [s \in S |-> GateTerm(u, s, c)])

\* the last row of the chunk of t
ChunkEnd(t) == (t \div BT) * BT + BT - 1

\* C15 as stated: the returned gate gradient at t is the local term at t plus
\* the local terms of the positions t+1 .. end of t's chunk, and nothing from
\* other chunks
C15_GateGradientFromOwnChunkOnly ==
    BwdDone =>
        \A u \in Units, t \in Times, c \in Chan :
            Val(grads).dg[u][t][c] =
                DAdd(GateTerm(u, t, c), GateTermSum(u, t + 1, ChunkEnd(t), c))

\* C15 amended: the kernel leaves at t the sum of the local terms of the
\* positions t .. end of t's chunk, and the returned gate gradient adds to it
\* the kernel's value at the first row of every later chunk
C15_GateGradientAddsLaterChunks ==
    BwdDone =>
        \A u \in Units, t \in Times, c \in Chan :
            /\ dg[u][t][c] = GateTermSum(u, t, ChunkEnd(t), c)
            /\ Val(grads).dg[u][t][c] =
                 DAdd(dg[u][t][c],
                      DSumSeq([m \in 1..(backward_NT - 1 - (t \div BT)) |->
                                  dg[u][((t \div BT) + m) * BT][c]]))

\* a position of the first chunk receives a non-zero sum from a later chunk
C15_Witness ==
    /\ BwdDone
    /\ \E c \in Chan :
          /\ dg[0][BT][c] # DZero
          /\ dg[0][0][c] # DZero
          /\ Val(grads).dg[0][0][c] # dg[0][0][c]

\* C20: the returned gate gradient at t is, per channel, the sum over all
\* positions s >= t of the unit of dq[s] * q[s] - dk[s] * k[s], with the
\* returned dq and dk
C20_GateGradientIsSuffixSum ==
    BwdDone =>
        \A u \in Units, t \in Times, c \in Chan :
            Val(grads).dg[u][t][c] = GateTermSum(u, t, T - 1, c)

\* both chunks carry rows with non-zero local terms, and the last chunk
\* receives nothing from a later one
C20_Witness ==
    /\ BwdDone
    /\ \E c \in Chan :
          /\ GateTermSum(0, 0, BT - 1, c) # DZero
          /\ GateTermSum(0, T - BT, T - 1, c) # DZero
          /\ Val(grads).dg[0][T - BT][c] = dg[0][T - BT][c]
          /\ Val(grads).dg[0][0][c] # GateTermSum(0, 0, BT - 1, c)

(***************************************************************************)
(* The chunk loops of the three state-passing kernels, in one              *)
(* specification: a call of forward and backward, or a fixed-length call   *)
(* of chunk_dplr_bwd_dhu.                                                  *)
(***************************************************************************)
InitLoops == InitBWD \/ (InitFixed /\ GlaIdle /\ OthersIdle)

NextLoops ==
    \/ NextBWD
    \/ chunk_dplr_bwd_dhu
    \/ chunk_dplr_bwd_dhu_prepare
    \/ chunk_dplr_bwd_dhu_launch
    \/ \E i_nh \in 0..(MaxSeqs - 1) : chunk_dplr_bwd_kernel_dhu(i_nh)
    \/ \E i_nh \in 0..(MaxSeqs - 1) : chunk_dplr_bwd_kernel_dhu_store(i_nh)
    \/ chunk_dplr_bwd_dhu_return

SpecLoops == InitLoops /\ [][NextLoops]_vars

\* the gradient that reaches the state before timestep t of unit u from the
\* outputs at the positions >= t, one timestep at a time in decreasing
\* order: zero at t = T, and exp(gate_t) * (scale * q_t * do_t + the gradient
\* before t + 1) otherwise
RECURSIVE RefStateGrad(_, _)
RefStateGrad(u, t) ==
    IF t >= T THEN VZero
    ELSE LET nxt == RefStateGrad(u, t + 1)
             r   == XRow(u, t)
         IN  [c \in Chan |->
                 DMul(exp(r.g[c]),
                      DAdd(DMul(DMul(scale, r.q[c]), DoRow(u, t)), nxt[c]))]

\* the forward loop of unit u is about to run iteration i_loop[u]: the
\* carried state is the state after the chunks before it, and the rows of
\* those chunks hold the output computed from the state before their chunk
FwdLoopInOrder(u) ==
    /\ b_h[u] = RefState(u, Min(i_loop[u] * BT, T))
    /\ \A t \in Times :
          t < i_loop[u] * BT => o[u][t] = Dot(q_g[u][t], RefState(u, (t \div BT) * BT))

\* the second backward loop of unit u is about to run iteration bk_i[u]: the
\* carried state gradient is the one after all later chunks, and the rows of
\* those chunks hold dk and dv computed from the gradient before their chunk
BwdLoopInOrder(u) ==
    LET first == T - (bk_i[u] - 1) * BT
    IN  /\ bk_dh[u] = RefStateGrad(u, first)
        /\ \A t \in Times :
              t >= first =>
                 LET D == RefStateGrad(u, (t \div BT) * BT + BT)
                 IN  /\ dk[u][t] = [c \in Chan |-> DMul(D[c], VRow(u, t))]
                     /\ dv[u][t] = Dot(k_g[u][t], D)

\* the loop of sequence n of chunk_dplr_bwd_kernel_dhu is about to run chunk
\* loop_i_t[n]: the carried state gradient is the one after all later
\* chunks, and the slots of those chunks hold the gradient before their chunk
DhuLoopInOrder(n) ==
    /\ b_dh[n] = RefDS(n, loop_i_t[n] + 1)
    /\ \A j \in (loop_i_t[n] + 1)..(CallChunks(n) - 1) :
          Val(dh)[kernel_dh_slot(n, j)] = RefDS(n, j + 1)

\* C18: within one work unit the chunk loop is sequential: the forward
\* kernel computes the output of chunk i from the state after the chunks
\* 0 .. i-1 and before chunk i's update; the backward kernels use for chunk
\* i the state gradient produced after all later chunks and before chunk
\* i's own update
C18_ChunkLoopsAreSequential ==
    /\ pc = "fused_chunk_gla_fwd_kernel" => \A u \in DOMAIN i_loop : FwdLoopInOrder(u)
    /\ bpc = "fused_chunk_gla_bwd_kernel" =>
          \A u \in DOMAIN bk_phase : bk_phase[u] # "dq" => BwdLoopInOrder(u)
    /\ dpc = "chunk_dplr_bwd_kernel_dhu" => \A n \in DOMAIN k_pc : DhuLoopInOrder(n)

\* the backward kernel has walked both chunks: the rows of the first chunk
\* hold a non-zero dk from the gradient of the last chunk, and the carried
\* gradient has since been decayed and updated
C18_Witness ==
    /\ bpc = "fused_chunk_gla_bwd_kernel"
    /\ bk_phase[0] = "done" /\ T >= 2 * BT
    /\ \E t \in 0..(BT - 1) : dk[0][t] # VZero
    /\ bk_dh[0] # RefStateGrad(0, BT)
    /\ \E p \in DOMAIN x : p[2] < BT /\ x[p].g # IZero

(***************************************************************************)
(* The launches of fused_chunk_gla_fwd_kernel and                          *)
(* fused_chunk_gla_bwd_kernel: grid sizes, and the blocks every program    *)
(* instance stores, as flat element offsets into the tensor.               *)
(***************************************************************************)
\* the largest key or value block: min(K, 64), min(V, 64)
MaxBlock == 64

\* key and value widths on both sides of one block
GridKeys == {1, MaxBlock + 1}
GridValues == {1, MaxBlock + 1}

\* FusedChunkGLAFunction.apply on tensors [B, H, T, K] and [B, H, T, V]:
\* every key width with one value block and one unit, and the widths around
\* one block with several units
InitGrid ==
    /\ kpc = "forward"
    /\ \E K_ \in 1..MaxKey, V_ \in GridValues, B_ \in 1..MaxDim :
         /\ K_ \in GridKeys \/ (V_ = 1 /\ B_ = 1)
         /\ kshape = [B |-> B_, H |-> 1, T |-> BT * MaxNT, K |-> K_, V |-> V_]
    /\ kgrid = <<>> /\ kran = {} /\ kstores = {}
    /\ GlaIdle /\ DhuIdle /\ LaIdle /\ BwdIdle

\* forward: BK, BV = min(K, 64), min(V, 64)
forward_BK(K_) == Min(K_, MaxBlock)
forward_BV(V_) == Min(V_, MaxBlock)

\* mutant: the whole key dimension is one block
backward_BK_whole(K_) == next_power_of_2(K_)

\* backward: BK, BV = min(next_power_of_2(K), 64), min(next_power_of_2(V), 64)
backward_BK(K_) == Min(next_power_of_2(K_), MaxBlock)
backward_BV(V_) == Min(next_power_of_2(V_), MaxBlock)

\* forward up to the launch of fused_chunk_gla_fwd_kernel on the grid
\* (NV, NK, B * H)
forward_grid ==
    /\ kpc = "forward"
    /\ kgrid' = [BK |-> forward_BK(kshape.K), BV |-> forward_BV(kshape.V),
                 NK |-> cdiv(kshape.K, forward_BK(kshape.K)),
                 NV |-> cdiv(kshape.V, forward_BV(kshape.V))]
    /\ kran' = {} /\ kstores' = {}
    /\ kpc' = "fused_chunk_gla_fwd_kernel"
    /\ UNCHANGED <<kshape, glaVars, dhuVars, laVars, bwdVars>>

\* the program instances of the running launch
GridInstances ==
    (0..(kgrid.NV - 1)) \X (0..(kgrid.NK - 1)) \X (0..(kshape.B * kshape.H - 1))

\* tl.store through tl.make_block_ptr(base, (R, C), (C, 1), (row0, col0),
\* (brows, bcols), (1, 0)) with boundary_check=(0, 1): the rows and columns
\* of the block that lie inside the tensor, from the flat offset lo
BlockStore(tensor, by, base, R, C, row0, col0, brows, bcols) ==
    [tensor |-> tensor, by |-> by, lo |-> base + row0 * C + col0,
     rows |-> Min(brows, R - row0), stride |-> C, len |-> Min(bcols, C - col0)]

\* the flat offsets of the elements of a stored block
Elements(st) ==
    {st.lo + i * st.stride + j : i \in 0..(st.rows - 1), j \in 0..(st.len - 1)}

\* two stored blocks of one tensor share no element: a block lies inside
\* the rows of its tensor (InRow), so its elements are the rows
\* lo \div stride .. + rows - 1 by the columns lo % stride .. + len - 1
InRow(st) == (st.lo % st.stride) + st.len <= st.stride
Apart(a, b) ==
    \/ (a.lo \div a.stride) + a.rows <= b.lo \div b.stride
    \/ (b.lo \div b.stride) + b.rows <= a.lo \div a.stride
    \/ (a.lo % a.stride) + a.len <= b.lo % b.stride
    \/ (b.lo % b.stride) + b.len <= a.lo % a.stride

\* mutant: every key block stores into the slice of key block 0
fwd_kernel_o_base_shared(i_k, i_bh) == i_bh * kshape.T * kshape.V

\* fused_chunk_gla_fwd_kernel: o + (i_bh + i_k * B * H) * T*V
fwd_kernel_o_base(i_k, i_bh) ==
    (i_bh + i_k * kshape.B * kshape.H) * kshape.T * kshape.V

\* fused_chunk_gla_fwd_kernel: the stores of one program instance, p_o in
\* every iteration of the chunk loop and p_final after it
fwd_kernel_stores(i_v, i_k, i_bh) ==
    {BlockStore("o", <<i_v, i_k, i_bh>>, fwd_kernel_o_base(i_k, i_bh),
                kshape.T, kshape.V, i * BT, i_v * kgrid.BV, BT, kgrid.BV) :
        i \in 0..(cdiv(kshape.T, BT) - 1)}
    \cup
    {BlockStore("ht", <<i_v, i_k, i_bh>>, i_bh * kshape.K * kshape.V,
                kshape.K, kshape.V, i_k * kgrid.BK, i_v * kgrid.BV, kgrid.BK, kgrid.BV)}

\* the tensors fused_chunk_gla_fwd_kernel loads from
fwd_kernel_loads == {"q", "k", "v", "g", "h0"}

\* one program instance of fused_chunk_gla_fwd_kernel
fused_chunk_gla_fwd_kernel_instance(i_v, i_k, i_bh) ==
    /\ kpc = "fused_chunk_gla_fwd_kernel"
    /\ <<i_v, i_k, i_bh>> \in GridInstances \ kran
    /\ kstores' = kstores \cup fwd_kernel_stores(i_v, i_k, i_bh)
    /\ kran' = kran \cup {<<i_v, i_k, i_bh>>}
    /\ UNCHANGED <<kpc, kshape, kgrid, glaVars, dhuVars, laVars, bwdVars>>

\* forward after the launch: o = o.sum(0) over the NK slices
forward_sum ==
    /\ kpc = "fused_chunk_gla_fwd_kernel"
    /\ kran = GridInstances
    /\ kpc' = "backward"
    /\ UNCHANGED <<kshape, kgrid, kran, kstores, glaVars, dhuVars, laVars, bwdVars>>

\* backward up to the launch of fused_chunk_gla_bwd_kernel on the grid
\* (NV, NK, B * H)
backward_grid ==
    /\ kpc = "backward"
    /\ kgrid' = [BK |-> backward_BK(kshape.K), BV |-> backward_BV(kshape.V),
                 NK |-> cdiv(kshape.K, backward_BK(kshape.K)),
                 NV |-> cdiv(kshape.V, backward_BV(kshape.V))]
    /\ kran' = {} /\ kstores' = {}
    /\ kpc' = "fused_chunk_gla_bwd_kernel"
    /\ UNCHANGED <<kshape, glaVars, dhuVars, laVars, bwdVars>>

\* fused_chunk_gla_bwd_kernel: dq + (i_bh + i_v*B*H)*T*K, and the same for dk
bwd_kernel_dq_base(i_v, i_bh) ==
    (i_bh + i_v * kshape.B * kshape.H) * kshape.T * kshape.K

\* fused_chunk_gla_bwd_kernel: dv + (i_bh + i_k * B * H) * T*V
bwd_kernel_dv_base(i_k, i_bh) ==
    (i_bh + i_k * kshape.B * kshape.H) * kshape.T * kshape.V

\* fused_chunk_gla_bwd_kernel: the stores of one program instance, p_dq in
\* the first loop, p_dk and p_dv in the second
bwd_kernel_stores(i_v, i_k, i_bh) ==
    {BlockStore("dq", <<i_v, i_k, i_bh>>, bwd_kernel_dq_base(i_v, i_bh),
                kshape.T, kshape.K, i * BT, i_k * kgrid.BK, BT, kgrid.BK) :
        i \in 0..(cdiv(kshape.T, BT) - 1)}
    \cup
    {BlockStore("dk", <<i_v, i_k, i_bh>>, bwd_kernel_dq_base(i_v, i_bh),
                kshape.T, kshape.K, kshape.T - i * BT, i_k * kgrid.BK, BT, kgrid.BK) :
        i \in 1..cdiv(kshape.T, BT)}
    \cup
    {BlockStore("dv", <<i_v, i_k, i_bh>>, bwd_kernel_dv_base(i_k, i_bh),
                kshape.T, kshape.V, kshape.T - i * BT, i_v * kgrid.BV, BT, kgrid.BV) :
        i \in 1..cdiv(kshape.T, BT)}

\* the tensors fused_chunk_gla_bwd_kernel loads from
bwd_kernel_loads == {"q", "k", "v", "g", "do", "h0"}

\* one program instance of fused_chunk_gla_bwd_kernel
fused_chunk_gla_bwd_kernel_instance(i_v, i_k, i_bh) ==
    /\ kpc = "fused_chunk_gla_bwd_kernel"
    /\ <<i_v, i_k, i_bh>> \in GridInstances \ kran
    /\ kstores' = kstores \cup bwd_kernel_stores(i_v, i_k, i_bh)
    /\ kran' = kran \cup {<<i_v, i_k, i_bh>>}
    /\ UNCHANGED <<kpc, kshape, kgrid, glaVars, dhuVars, laVars, bwdVars>>

\* backward after the launch: dq.sum(0), dk.sum(0), dv.sum(0)
backward_sum ==
    /\ kpc = "fused_chunk_gla_bwd_kernel"
    /\ kran = GridInstances
    /\ kpc' = "done"
    /\ UNCHANGED <<kshape, kgrid, kran, kstores, glaVars, dhuVars, laVars, bwdVars>>

\* the GLA launches, or a call of chunk_dplr_bwd_dhu of every key width
InitLaunches == InitGrid \/ (InitWidths /\ GlaIdle /\ OthersIdle)

NextGrid ==
    \/ forward_grid
    \/ \E i_v \in 0..(cdiv(MaxBlock + 1, MaxBlock) - 1),
          i_k \in 0..(cdiv(MaxKey, MaxBlock) - 1),
          i_bh \in 0..(MaxDim - 1) : fused_chunk_gla_fwd_kernel_instance(i_v, i_k, i_bh)
    \/ forward_sum
    \/ backward_grid
    \/ \E i_v \in 0..(cdiv(MaxBlock + 1, MaxBlock) - 1),
          i_k \in 0..(cdiv(MaxKey, MaxBlock) - 1),
          i_bh \in 0..(MaxDim - 1) : fused_chunk_gla_bwd_kernel_instance(i_v, i_k, i_bh)
    \/ backward_sum
    \/ chunk_dplr_bwd_dhu
    \/ chunk_dplr_bwd_dhu_prepare
    \/ chunk_dplr_bwd_dhu_launch
    \/ \E i_nh \in 0..(MaxSeqs - 1) : chunk_dplr_bwd_kernel_dhu(i_nh)
    \/ \E i_nh \in 0..(MaxSeqs - 1) : chunk_dplr_bwd_kernel_dhu_store(i_nh)
    \/ chunk_dplr_bwd_dhu_return

SpecGrid == InitLaunches /\ [][NextGrid]_vars

(***************************************************************************)
(* Key blocks and the independence of the program instances.               *)
(***************************************************************************)
\* a launch of one of the two GLA kernels is running or has run
GlaLaunched == kpc \in {"fused_chunk_gla_fwd_kernel", "backward",
                        "fused_chunk_gla_bwd_kernel", "done"}

\* chunk_dplr_bwd_kernel_dhu is running or has run
DhuLaunched == dpc \in {"chunk_dplr_bwd_kernel_dhu", "done"}

\* C12 as stated: every launch of a state-passing kernel has one key block,
\* whatever K
C12_OneKeyBlock ==
    /\ GlaLaunched => kgrid.NK = 1
    /\ DhuLaunched => host_NK(call) = 1

\* the slice of the elements per slice of a tensor a block is stored into
SliceOf(st, per) == st.lo \div per

\* C12 amended: chunk_dplr_bwd_kernel_dhu is launched with one key block,
\* for every K up to 256; the GLA kernels are launched with cdiv(K, 64) key
\* blocks, which is 1 exactly for K <= 64, and each key block stores its
\* partial o (forward) or dv (backward) into the slice of its own index
C12_KeyBlocksPerKernel ==
    /\ GlaLaunched =>
          /\ kgrid.NK = cdiv(kshape.K, MaxBlock)
          /\ kgrid.NK = 1 <=> kshape.K <= MaxBlock
          /\ \A st \in kstores :
                st.tensor \in {"o", "dv"} =>
                   SliceOf(st, kshape.B * kshape.H * kshape.T * kshape.V) = st.by[2]
    /\ DhuLaunched => host_NK(call) = 1 /\ call.K <= MaxBK

\* a forward launch with K > 64 has run: two key blocks of one unit and one
\* value block stored their partial outputs
C12_Witness ==
    /\ kpc = "backward" /\ kshape.K > MaxBlock
    /\ \E a \in kstores, b \in kstores :
          /\ a.tensor = "o" /\ b.tensor = "o"
          /\ a.by[1] = b.by[1] /\ a.by[3] = b.by[3] /\ a.by[2] # b.by[2]
          /\ a.lo # b.lo

\* the tensors the running launch loads from and the sizes of the tensors
\* it stores into: o[NK, B, H, T, V], ht[B, H, K, V], dq[NV, B, H, T, K],
\* dk[NV, B, H, T, K], dv[NK, B, H, T, V]
LaunchLoads ==
    IF kpc \in {"fused_chunk_gla_fwd_kernel", "backward"}
    THEN fwd_kernel_loads ELSE bwd_kernel_loads
LaunchOutputs ==
    LET BH == kshape.B * kshape.H
    IN  IF kpc \in {"fused_chunk_gla_fwd_kernel", "backward"}
        THEN [o  |-> kgrid.NK * BH * kshape.T * kshape.V,
              ht |-> BH * kshape.K * kshape.V]
        ELSE [dq |-> kgrid.NV * BH * kshape.T * kshape.K,
              dk |-> kgrid.NV * BH * kshape.T * kshape.K,
              dv |-> kgrid.NK * BH * kshape.T * kshape.V]

\* the number of elements of a set of stored blocks
RECURSIVE StoredCount(_)
StoredCount(S) ==
    IF S = {} THEN 0
    ELSE LET st == CHOOSE e \in S : TRUE
         IN  st.rows * st.len + StoredCount(S \ {st})

\* C19: any two distinct program instances of a launch store disjoint
\* elements of o and the final state, or of dq, dk and dv; no instance loads
\* from a tensor the launch stores into; and when all instances have run,
\* in whatever order, every element of every output tensor has been stored
\* exactly once
C19_WorkUnitsIndependent ==
    GlaLaunched =>
        /\ \A st \in kstores :
              /\ InRow(st)
              /\ st.lo >= 0 /\ st.lo + (st.rows - 1) * st.stride + st.len
                                 <= LaunchOutputs[st.tensor]
              /\ st.tensor \notin LaunchLoads
        /\ \A a \in kstores, b \in kstores :
              (a.tensor = b.tensor /\ a.by # b.by) => Apart(a, b)
        /\ kran = GridInstances =>
              \A tn \in DOMAIN LaunchOutputs :
                 StoredCount({st \in kstores : st.tensor = tn}) = LaunchOutputs[tn]

\* a backward launch of two key blocks, two value blocks and two units has
\* run in full
C19_Witness ==
    /\ kpc = "done" /\ kgrid.NK >= 2 /\ kgrid.NV >= 2 /\ kshape.B * kshape.H >= 2
    /\ kran = GridInstances
    /\ \E a \in kstores, b \in kstores :
          /\ a.tensor = "dq" /\ b.tensor = "dq" /\ a.by[1] # b.by[1]
          /\ a.by[2] = b.by[2] /\ a.by[3] = b.by[3]
          /\ Elements(a) # {} /\ Elements(a) \cap Elements(b) = {}

(***************************************************************************)
(* fused_chunk_gla on lengths around a multiple of 16.  The scanned axis   *)
(* is dimension 2 of the tensors handed to apply (x.shape[-2] in pad, the  *)
(* T of B, H, T, K = k.shape in forward); one unit, the other dimension    *)
(* has size 1.                                                             *)
(***************************************************************************)
PadLengths == {1, pad_chunk_size - 1, pad_chunk_size, pad_chunk_size + 1}

\* positions of the scanned axis of length len that may carry data
PadPositions(len) == {t \in 0..(len - 1) : t % BT \in DataOffsets \/ t = len - 1}

\* fused_chunk_gla(q, k, v, g, scale, None, True, head_first), scanned length len
InitPad ==
    /\ entry = "fused_chunk_gla" /\ head_first \in BOOLEAN /\ pc = "fused_chunk_gla"
    /\ \E len \in PadLengths :
         /\ shape = IF head_first THEN <<len, 1>> ELSE <<1, len>>
         /\ rows \in SparseRows({IF head_first THEN <<t, 0>> ELSE <<0, t>> :
                                    t \in PadPositions(len)})
    /\ initial_state = None
    /\ x = <<>> /\ H = 0 /\ T = 0 /\ seq_len = 0
    /\ InitCommon
    /\ DhuIdle /\ OthersIdle

SpecPad == InitPad /\ [][NextGLA]_vars

\* the output of timestep t of the one-timestep-at-a-time recurrence over the
\* rows the caller passed: scale * q_t . S_t, S_t the state after timestep t
SequentialOut(u, t) ==
    DMul(scale, DSumSeq([c \in Chan |-> DMul(XRow(u, t).q[c], RefState(u, t + 1)[c])]))

\* the output row of unit u and position t as fused_chunk_gla returns it
ReturnedRow(u, t) == IF head_first THEN ret_o[t][u] ELSE ret_o[u][t]

\* C21: padding is transparent.  The scanned length becomes
\* ceil(seq_len/16)*16 (seq_len itself when it is a multiple of 16), the rows
\* added are zero rows, and the final state and the first seq_len output rows
\* fused_chunk_gla returns are those of the sequential recurrence over the
\* seq_len rows of the caller
C21_PaddingIsTransparent ==
    /\ (entry = "fused_chunk_gla" /\ pc # "fused_chunk_gla") =>
          /\ T = ceildiv(seq_len, pad_chunk_size) * pad_chunk_size
          /\ (seq_len % pad_chunk_size = 0 => T = seq_len)
          /\ \A u \in Units : \A t \in seq_len..(T - 1) : XRow(u, t) = ZeroRow
    /\ (entry = "fused_chunk_gla" /\ pc = "done") =>
          \A u \in Units :
             /\ Val(final_state)[u] = RefState(u, seq_len)
             /\ \A t \in 0..(seq_len - 1) : ReturnedRow(u, t) = SequentialOut(u, t)

\* a call of length 17, padded to 32, whose last row carries data and decays
\* the state left by row 0
C21_Witness ==
    /\ pc = "done" /\ entry = "fused_chunk_gla"
    /\ seq_len = pad_chunk_size + 1 /\ T = 2 * pad_chunk_size
    /\ <<0, 0>> \in DOMAIN x /\ <<0, seq_len - 1>> \in DOMAIN x
    /\ XRow(0, seq_len - 1).g # IZero
    /\ Val(final_state)[0] # RefState(0, 1)
    /\ ReturnedRow(0, seq_len - 1) # DZero

(***************************************************************************)
(* chunk_dplr_bwd_dhu with chunk sizes that are not powers of two, on      *)
(* every hardware tier.                                                    *)
(***************************************************************************)
\* chunk_size arguments below 16, between the powers of two, and powers of two
OddChunkSizes == {MinBT \div 2, MinBT, MinBT + MinBT \div 2, 2 * MinBT}

\* fixed-length calls of every chunk size on every hardware tier
InitChunks ==
    /\ \E B_ \in 1..MaxSeqs, T_ \in Marks \ {0}, cs \in OddChunkSizes, tier \in Tiers :
         \E data \in DhuInputs(DataRows(B_ * T_)) :
                call = NewCall(None, B_, T_, 1, cs, tier, data,
                               Some([n \in 0..(B_ - 1) |-> DInt(1)]), TRUE)
    /\ InitDhuCommon
    /\ GlaIdle /\ OthersIdle

SpecChunks == InitChunks /\ [][NextChunks]_vars

\* the rows of the flattened batch-time axis the sub-blocks of chunk it of
\* the instance read (qg, bg, w, do, dv) and write (dv2)
SubBlockRows(i_nh, it) ==
    UNION { {kernel_bos(i_nh) + t : t \in kernel_sub_block_rows(i_nh, it, i_c)} :
            i_c \in 0..(cdiv(loc.BT, loc.BC) - 1) }

\* the rows [i_t*BT, min((i_t+1)*BT, T)) of the instance's sequence
OwnChunkRows(i_nh, it) ==
    {kernel_bos(i_nh) + t : t \in (it * loc.BT)..(Min((it + 1) * loc.BT, kernel_T(i_nh)) - 1)}

\* C22: with BT and BC as chunk_dplr_bwd_dhu computes them, the sub-blocks
\* visited for chunk i_t of a sequence cover exactly the rows
\* [i_t*BT, min((i_t+1)*BT, T)) of that sequence, for every chunk size, every
\* length and every hardware tier: no row of another chunk or of another
\* sequence is read or written
C22_SubBlocksCoverOwnChunk ==
    dpc \in {"chunk_dplr_bwd_kernel_dhu", "done"} =>
        \A i_nh \in DOMAIN k_pc : \A it \in 0..(kernel_NT(i_nh) - 1) :
            SubBlockRows(i_nh, it) = OwnChunkRows(i_nh, it)

(***************************************************************************)
(* The reads of a chunk-total decay: fused_chunk_gla followed by the       *)
(* backward pass on lengths around a multiple of 16, and                   *)
(* chunk_dplr_bwd_dhu on variable-length batches.                          *)
(***************************************************************************)
\* fused_chunk_gla(q, k, v, g, scale, None, True, head_first) on a scanned
\* axis of length len whose last row may carry data, and the backward pass
InitReadsGla ==
    /\ entry = "fused_chunk_gla" /\ head_first \in BOOLEAN /\ pc = "fused_chunk_gla"
    /\ \E len \in PadLengths :
         /\ shape = IF head_first THEN <<len, 1>> ELSE <<1, len>>
         /\ rows \in SparseRows({IF head_first THEN <<len - 1, 0>> ELSE <<0, len - 1>>})
         /\ do = [p \in {<<0, len - 1>>} |-> DInt(1)]
    /\ initial_state = None
    /\ x = <<>> /\ H = 0 /\ T = 0 /\ seq_len = 0
    /\ InitCommon
    /\ bpc = "backward" /\ dht = None
    /\ bk_phase = <<>> /\ bk_i = <<>> /\ bk_h = <<>> /\ bk_dh = <<>>
    /\ dq = <<>> /\ dk = <<>> /\ dv = <<>> /\ dA2 = <<>> /\ dv2_intra = <<>>
    /\ dq2 = <<>> /\ dk2 = <<>> /\ dg = <<>> /\ bpend = {} /\ grads = None
    /\ DhuIdle /\ LaIdle /\ GridIdle

\* a variable-length call of chunk_dplr_bwd_dhu
InitReadsDhu ==
    /\ \E cu \in Boundaries, cs \in ChunkSizes :
         \E data \in IF ValidLengths(cu) THEN DhuInputs(DataRows(cu[Len(cu)])) ELSE {<<>>} :
            call = NewCall(Some(cu), 1, cu[Len(cu)], 1, cs, "other", data,
                           Some([n \in 0..(Len(cu) - 2) |-> DInt(1)]), TRUE)
    /\ InitDhuCommon
    /\ GlaIdle /\ OthersIdle

InitReads == InitReadsGla \/ InitReadsDhu

NextReads ==
    \/ fused_chunk_gla
    \/ fused_chunk_gla_return
    \/ NextBWD
    \/ NextChunks

SpecReads == InitReads /\ [][NextReads]_vars

\* the rows of chunk i of a scanned axis of len rows
ChunkRowsOf(i, len) == {t \in (i * BT)..((i + 1) * BT - 1) : t < len}

\* C23: every read of a chunk-total decay is at a row of the same sequence
\* and of the chunk being processed.  In chunk_dplr_bwd_kernel_dhu
\* i_t*BT <= last_idx < T_b holds for every chunk of every sequence, a short
\* last chunk included; in prepare_qg_kg and in the forward and backward
\* state kernels the row read for chunk i is the row (i+1)*16 - 1, which is
\* below the scanned length for every length passed to fused_chunk_gla
C23_DecayReadsInsideChunk ==
    /\ dpc \in {"chunk_dplr_bwd_kernel_dhu", "done"} =>
          \A i_nh \in DOMAIN k_pc : \A it \in 0..(kernel_NT(i_nh) - 1) :
             /\ it * loc.BT <= kernel_last_idx(i_nh, it)
             /\ kernel_last_idx(i_nh, it) < (it + 1) * loc.BT
             /\ kernel_last_idx(i_nh, it) < kernel_T(i_nh)
    /\ (entry = "fused_chunk_gla" /\ pc # "fused_chunk_gla") =>
          \A i \in 0..(NTof(T) - 1) :
             /\ last_decay_row(i) = (i + 1) * pad_chunk_size - 1
             /\ last_decay_row(i) \in ChunkRowsOf(i, T)
             /\ fwd_kernel_gn_row(i) = last_decay_row(i)
             /\ bwd_kernel_gn_row(i) = last_decay_row(i)
             /\ bwd_kernel_db_row(NTof(T) - i) = last_decay_row(i)

\* a call of fused_chunk_gla of length 17 whose backward pass is over: the
\* decay of the second chunk was read at row 31 of the padded axis, beyond
\* the 17 rows passed
C23_Witness ==
    /\ entry = "fused_chunk_gla" /\ bpc = "done" /\ ~IsNone(grads)
    /\ seq_len = pad_chunk_size + 1 /\ T = 2 * pad_chunk_size
    /\ last_decay_row(1) >= seq_len /\ last_decay_row(1) \in DOMAIN g[0]
    /\ <<0, seq_len - 1>> \in DOMAIN x /\ XRow(0, seq_len - 1).g # IZero
    /\ g[0][last_decay_row(1)] = XRow(0, seq_len - 1).g

=============================================================================
